---------------------------- MODULE Spec2Model ----------------------------
(***************************************************************************)
(* Model of the quasi-JSON repair and extraction engine of the ABIS log    *)
(* ingestor: src/parser/build_full_json.py (extract_json_objects,          *)
(* _fallback_flat_object, process_content) and src/parser/fix_json_v2.py   *)
(* (fix_json and its passes).                                              *)
(*                                                                         *)
(* Texts are TLA+ strings; positions are 1-based (Python position p is     *)
(* position p + 1 here).  The character set of the model is ASCII: the     *)
(* whitespace known to the model is space, \t, \n, \r and \f.              *)
(***************************************************************************)
EXTENDS Integers, Sequences, FiniteSets, TLC

(***************************************************************************)
(* Bounds of the model.                                                    *)
(***************************************************************************)
\* number of chunks a log content is made of
MaxChunks == 3
\* start lines handed to a direct call of _fallback_flat_object
MaxStartLine == 2

(***************************************************************************)
(* Characters and elementary string functions (Python's str methods).      *)
(***************************************************************************)
QUOTE == "\""
BACKSLASH == "\\"
NL == "\n"

\* s[i] with Python's position i - 1; "" outside the text (s[i:i+1])
Ch(s, i) == IF i >= 1 /\ i <= Len(s) THEN SubSeq(s, i, i) ELSE ""

\* s[i-1:] in Python
From(s, i) == SubSeq(s, i, Len(s))

\* s[:i-1] in Python
Upto(s, i) == SubSeq(s, 1, i - 1)

Digits == {"0", "1", "2", "3", "4", "5", "6", "7", "8", "9"}
LowerLetters == {"a", "b", "c", "d", "e", "f", "g", "h", "i", "j", "k", "l", "m",
                 "n", "o", "p", "q", "r", "s", "t", "u", "v", "w", "x", "y", "z"}
UpperLetters == {"A", "B", "C", "D", "E", "F", "G", "H", "I", "J", "K", "L", "M",
                 "N", "O", "P", "Q", "R", "S", "T", "U", "V", "W", "X", "Y", "Z"}
HexDigits == Digits \cup {"a", "b", "c", "d", "e", "f", "A", "B", "C", "D", "E", "F"}

\* str.isspace / the regex class \s, on the model's character set
PyWs == {" ", "\t", "\n", "\r", "\f"}

\* the first position >= i whose character is not in the set cs (Len(s)+1 if none)
SkipIn(s, i, cs) ==
    IF i > Len(s) THEN i
    ELSE CHOOSE k \in i..(Len(s) + 1) :
            /\ (k = Len(s) + 1 \/ Ch(s, k) \notin cs)
            /\ \A j \in i..(k - 1) : Ch(s, j) \in cs

\* the first position >= i whose character is in the set cs (Len(s)+1 if none)
SkipNotIn(s, i, cs) ==
    IF i > Len(s) THEN i
    ELSE CHOOSE k \in i..(Len(s) + 1) :
            /\ (k = Len(s) + 1 \/ Ch(s, k) \in cs)
            /\ \A j \in i..(k - 1) : Ch(s, j) \notin cs

\* the last position <= j whose character is not in cs (0 if none)
BackIn(s, j, cs) ==
    IF j < 1 THEN j
    ELSE CHOOSE k \in 0..j :
            /\ (k = 0 \/ Ch(s, k) \notin cs)
            /\ \A m \in (k + 1)..j : Ch(s, m) \in cs

\* str.strip()
Strip(s) == SubSeq(s, SkipIn(s, 1, PyWs), BackIn(s, Len(s), PyWs))

\* s.startswith(p) at position i: s[i-1:].startswith(p)
StartsAt(s, i, p) == i >= 1 /\ i + Len(p) - 1 <= Len(s) /\ SubSeq(s, i, i + Len(p) - 1) = p

StartsWith(s, p) == StartsAt(s, 1, p)

EndsWith(s, p) == Len(p) <= Len(s) /\ SubSeq(s, Len(s) - Len(p) + 1, Len(s)) = p

\* s.find(p, i - 1) + 1: the first position >= i where p occurs, 0 if none
Find(s, p, i) ==
    LET from == IF i < 1 THEN 1 ELSE i
        last == Len(s) - Len(p) + 1
    IN  IF \A k \in from..last : ~StartsAt(s, k, p) THEN 0
        ELSE CHOOSE k \in from..last :
                /\ StartsAt(s, k, p)
                /\ \A j \in from..(k - 1) : ~StartsAt(s, j, p)

\* p in s
Contains(s, p) == Find(s, p, 1) # 0

\* s.split(sep) for a one-character separator
RECURSIVE Split(_, _)
Split(s, sep) ==
    LET k == Find(s, sep, 1)
    IN  IF k = 0 THEN <<s>> ELSE <<Upto(s, k)>> \o Split(From(s, k + 1), sep)

\* sep.join(parts)
RECURSIVE Join(_, _)
Join(parts, sep) ==
    IF parts = <<>> THEN ""
    ELSE IF Len(parts) = 1 THEN parts[1]
    ELSE parts[1] \o sep \o Join(Tail(parts), sep)

\* str.splitlines(): the lines of s without their line boundaries (\n, \r, \r\n,
\* \f on the model's character set); no last empty line after a final boundary
LineBreaks == {"\n", "\r", "\f"}

RECURSIVE SplitLines(_)
SplitLines(s) ==
    IF s = "" THEN <<>>
    ELSE LET k == SkipNotIn(s, 1, LineBreaks)
             n == IF Ch(s, k) = "\r" /\ Ch(s, k + 1) = "\n" THEN k + 2 ELSE k + 1
         IN  IF k > Len(s) THEN <<s>> ELSE <<Upto(s, k)>> \o SplitLines(From(s, n))

(***************************************************************************)
(* extract_json_objects: the scanner's state after one character and after *)
(* one line.                                                               *)
(***************************************************************************)
\* one pass of the loop over the characters of a line (lines 38-57)
ScanChar(st, ch, ln) ==
    IF st.escape_next THEN [st EXCEPT !.escape_next = FALSE]
    ELSE IF ch = BACKSLASH THEN [st EXCEPT !.escape_next = TRUE]
    ELSE LET ins == IF ch = QUOTE THEN ~st.in_string ELSE st.in_string
             s1 == [st EXCEPT !.in_string = ins]
         IN  IF ins THEN s1
             ELSE IF ch = "{"
                  THEN [s1 EXCEPT !.brace_depth = @ + 1,
                                  !.current_start_line =
                                      IF st.brace_depth = 0 THEN ln ELSE @,
                                  !.current_obj =
                                      IF st.brace_depth = 0 THEN <<>> ELSE @]
             ELSE IF ch = "}" THEN [s1 EXCEPT !.brace_depth = @ - 1]
             ELSE s1

\* the loop over the characters i..j of a line, in their order (the range is
\* halved so that the evaluation stays shallow)
RECURSIVE ScanRange(_, _, _, _, _)
ScanRange(st, line, i, j, ln) ==
    IF i > j THEN st
    ELSE IF i = j THEN ScanChar(st, Ch(line, i), ln)
    ELSE LET mid == (i + j) \div 2
             half == ScanRange(st, line, i, mid, ln)
         IN  IF half.brace_depth \in Int
             THEN ScanRange(half, line, mid + 1, j, ln)
             ELSE half

\* the loop over the characters of a line, from position i on
ScanChars(st, line, i, ln) == ScanRange(st, line, i, Len(line), ln)

\* faulty variant of EndLine: the lines of a segment are joined by a space
EndLineSpace(st, line) ==
    LET obj == IF st.brace_depth > 0
                  \/ (st.brace_depth = 0 /\ EndsWith(Strip(line), "}"))
               THEN Append(st.current_obj, line)
               ELSE st.current_obj
        json_str == Join(obj, " ")
    IN  IF st.brace_depth = 0 /\ obj # <<>>
        THEN [st EXCEPT !.current_obj = <<>>,
                        !.objects = IF Strip(json_str) # ""
                                    THEN Append(@, <<st.current_start_line, json_str>>)
                                    ELSE @]
        ELSE [st EXCEPT !.current_obj = obj]

\* the end of a pass of the loop over the lines (lines 59-68)
EndLine(st, line) ==
    LET obj == IF st.brace_depth > 0
                  \/ (st.brace_depth = 0 /\ EndsWith(Strip(line), "}"))
               THEN Append(st.current_obj, line)
               ELSE st.current_obj
        json_str == Join(obj, NL)
    IN  IF st.brace_depth = 0 /\ obj # <<>>
        THEN [st EXCEPT !.current_obj = <<>>,
                        !.objects = IF Strip(json_str) # ""
                                    THEN Append(@, <<st.current_start_line, json_str>>)
                                    ELSE @]
        ELSE [st EXCEPT !.current_obj = obj]

\* one pass of the loop over the lines (lines 36-68)
ScanLineOp(st, line, ln) == EndLine(ScanChars(st, line, 1, ln), line)

\* the scanner's state at the start (lines 27-32)
ScanInit == [objects |-> <<>>, current_obj |-> <<>>, current_start_line |-> 0,
             brace_depth |-> 0, in_string |-> FALSE, escape_next |-> FALSE]

RECURSIVE ScanLines(_, _, _)
ScanLines(st, lines, ln) ==
    IF ln > Len(lines) THEN st
    ELSE ScanLines(ScanLineOp(st, lines[ln], ln), lines, ln + 1)

\* extract_json_objects(content), as a function
extract_json_objects(content) == ScanLines(ScanInit, Split(content, NL), 1).objects

(***************************************************************************)
(* JSON values.  Every value is a record of the same shape: t is the tag,  *)
(* s a string, n a number and xs the members.  An object's members are     *)
(* "kv" records in insertion order, its keys unique (a Python dict).       *)
(***************************************************************************)
JNull == [t |-> "null", s |-> "", n |-> 0, xs |-> <<>>]

JBool(b) == [t |-> "bool", s |-> "", n |-> IF b THEN 1 ELSE 0, xs |-> <<>>]

JInt(n) == [t |-> "int", s |-> "", n |-> n, xs |-> <<>>]

\* a float is kept by its lexeme
JFloat(lex) == [t |-> "float", s |-> lex, n |-> 0, xs |-> <<>>]

JStr(s) == [t |-> "str", s |-> s, n |-> 0, xs |-> <<>>]

JArr(xs) == [t |-> "arr", s |-> "", n |-> 0, xs |-> xs]

JObj(kvs) == [t |-> "obj", s |-> "", n |-> 0, xs |-> kvs]

KV(k, v) == [t |-> "kv", s |-> k, n |-> 0, xs |-> <<v>>]

\* d[k] = v on the members of a dict
Put(kvs, k, v) ==
    IF \E i \in 1..Len(kvs) : kvs[i].s = k
    THEN [i \in 1..Len(kvs) |-> IF kvs[i].s = k THEN KV(k, v) ELSE kvs[i]]
    ELSE Append(kvs, KV(k, v))

HasKey(obj, k) == \E i \in 1..Len(obj.xs) : obj.xs[i].s = k

\* d[k]
Get(obj, k) == obj.xs[CHOOSE i \in 1..Len(obj.xs) : obj.xs[i].s = k].xs[1]

Keys(obj) == {obj.xs[i].s : i \in 1..Len(obj.xs)}

\* the value of a run of decimal digits
RECURSIVE DigitsVal(_, _)
DigitsVal(s, acc) ==
    IF s = "" THEN acc
    ELSE DigitsVal(From(s, 2),
                   10 * acc + (CHOOSE d \in 0..9 : ToString(d) = Ch(s, 1)))

(***************************************************************************)
(* json.loads: the decoder of Python's json module in strict mode.  A      *)
(* result is [ok, v, end, msg, exc]: on success the value and the position *)
(* after it, on failure the exception raised, its message and, for a       *)
(* JSONDecodeError, its position.  The decoder's recursion limit is not    *)
(* modelled: the texts of the model nest a few levels deep.                *)
(***************************************************************************)
Ok(v, end) == [ok |-> TRUE, v |-> v, end |-> end, msg |-> "", exc |-> ""]

Fail(msg, at) ==
    [ok |-> FALSE, v |-> JNull, end |-> at, msg |-> msg, exc |-> "JSONDecodeError"]

\* the decoder raises ValueError, which is no JSONDecodeError
RaiseValueError(msg, at) ==
    [ok |-> FALSE, v |-> JNull, end |-> at, msg |-> msg, exc |-> "ValueError"]

\* sys.int_info.default_max_str_digits: int() of a text of more decimal digits
\* raises ValueError
int_max_str_digits == 4300

\* the number of decimal digits of the text s
DigitCount(s) == Cardinality({k \in 1..Len(s) : Ch(s, k) \in Digits})

JsonWs == {" ", "\t", "\n", "\r"}

\* the characters below 0x20 of the model's character set
ControlChars == {"\t", "\n", "\r", "\f"}

\* the escapes of a JSON string; \b and \uXXXX decode to characters outside the
\* model's character set and are kept as written
EscapeOf(e) ==
    CASE e = QUOTE -> QUOTE
      [] e = BACKSLASH -> BACKSLASH
      [] e = "/" -> "/"
      [] e = "n" -> "\n"
      [] e = "r" -> "\r"
      [] e = "t" -> "\t"
      [] e = "f" -> "\f"
      [] OTHER -> BACKSLASH \o e

\* scanstring from position i on; begin is the position of the opening quote
RECURSIVE ScanStr(_, _, _, _)
ScanStr(s, begin, from, acc) ==
    LET i == SkipNotIn(s, from, {QUOTE, BACKSLASH} \cup ControlChars)
        c == Ch(s, i)
        e == Ch(s, i + 1)
        chunk == acc \o SubSeq(s, from, i - 1)
    IN  IF i > Len(s) THEN Fail("Unterminated string starting at", begin)
        ELSE IF c = QUOTE THEN Ok(JStr(chunk), i + 1)
        ELSE IF c \in ControlChars THEN Fail("Invalid control character at", i)
        ELSE IF i + 1 > Len(s) THEN Fail("Unterminated string starting at", begin)
        ELSE IF e = "u"
             THEN IF i + 5 > Len(s)
                     \/ \E k \in 2..5 : Ch(s, i + k) \notin HexDigits
                  THEN Fail("Invalid \\uXXXX escape", i + 1)
                  ELSE ScanStr(s, begin, i + 6, chunk \o SubSeq(s, i, i + 5))
        ELSE IF e \in {QUOTE, BACKSLASH, "/", "b", "f", "n", "r", "t"}
             THEN ScanStr(s, begin, i + 2, chunk \o EscapeOf(e))
        ELSE Fail("Invalid \\escape", i)

\* _match_number, the integer part (-?(?:0|[1-9]\d*)) from i0 on: the position
\* after it, 0 if there is none
IntEnd(s, i0) ==
    IF Ch(s, i0) = "0" THEN i0 + 1
    ELSE IF Ch(s, i0) \in Digits THEN SkipIn(s, i0, Digits)
    ELSE 0

\* _match_number, the optional fraction (\.\d+)? at i1: the position after it
FracEnd(s, i1) ==
    IF Ch(s, i1) = "." /\ Ch(s, i1 + 1) \in Digits
    THEN SkipIn(s, i1 + 1, Digits) ELSE i1

\* _match_number, the digits of the exponent at e0, the exponent starting at i2
ExpDigitsEnd(s, i2, e0) == IF Ch(s, e0) \in Digits THEN SkipIn(s, e0, Digits) ELSE i2

\* _match_number, the optional exponent ([eE][-+]?\d+)? at i2
ExpEnd(s, i2) ==
    IF Ch(s, i2) \in {"e", "E"}
    THEN ExpDigitsEnd(s, i2, IF Ch(s, i2 + 1) \in {"-", "+"} THEN i2 + 2 ELSE i2 + 1)
    ELSE i2

\* the end of the number at idx whose integer part ends at i1
NumberTail(s, idx, i1) == IF i1 = 0 THEN idx ELSE ExpEnd(s, FracEnd(s, i1))

\* _match_number: the position after the number that starts at idx, idx if none
NumberEnd(s, idx) ==
    NumberTail(s, idx, IntEnd(s, IF Ch(s, idx) = "-" THEN idx + 1 ELSE idx))

\* the value of the number lexeme lex
NumberVal(lex) ==
    IF \E i \in 1..Len(lex) : Ch(lex, i) \in {".", "e", "E"} THEN JFloat(lex)
    ELSE IF Ch(lex, 1) = "-" THEN JInt(0 - DigitsVal(From(lex, 2), 0))
    ELSE JInt(DigitsVal(lex, 0))

\* whether the number lexeme lex is an integer of more digits than int() takes
IntTooLong(lex) ==
    /\ \A i \in 1..Len(lex) : Ch(lex, i) \notin {".", "e", "E"}
    /\ DigitCount(lex) > int_max_str_digits

\* the number at idx, ne being NumberEnd(s, idx)
ScanNumber(s, idx, ne) ==
    IF ne = idx THEN Fail("Expecting value", idx)
    ELSE IF IntTooLong(SubSeq(s, idx, ne - 1))
         THEN RaiseValueError("Exceeds the limit (4300 digits) for integer string conversion",
                              idx)
    ELSE Ok(NumberVal(SubSeq(s, idx, ne - 1)), ne)

RECURSIVE ScanOnce(_, _)
RECURSIVE ObjectLoop(_, _, _)
RECURSIVE ArrayLoop(_, _, _)

\* the object decoder after a member: i3 is where "," or "}" is expected
ObjectNext(s, pairs, i3) ==
    IF Ch(s, i3) = "}" THEN Ok(JObj(pairs), i3 + 1)
    ELSE IF Ch(s, i3) # "," THEN Fail("Expecting ',' delimiter", i3)
    ELSE ObjectLoop(s, SkipIn(s, i3 + 1, JsonWs), pairs)

\* the object decoder after the value v of the member key
ObjectValue(s, pairs, key, v) ==
    IF ~v.ok THEN v
    ELSE ObjectNext(s, Put(pairs, key, v.v), SkipIn(s, v.end, JsonWs))

\* the object decoder after the member key: i1 is where ":" is expected
ObjectColon(s, pairs, key, i1) ==
    IF Ch(s, i1) # ":" THEN Fail("Expecting ':' delimiter", i1)
    ELSE ObjectValue(s, pairs, key, ScanOnce(s, SkipIn(s, i1 + 1, JsonWs)))

\* the object decoder after the scan k of a key
ObjectKey(s, pairs, k) ==
    IF ~k.ok THEN k
    ELSE ObjectColon(s, pairs, k.v.s, SkipIn(s, k.end, JsonWs))

\* the loop of the object decoder: idx is where a key is expected
ObjectLoop(s, idx, pairs) ==
    IF Ch(s, idx) # QUOTE
    THEN Fail("Expecting property name enclosed in double quotes", idx)
    ELSE ObjectKey(s, pairs, ScanStr(s, idx, idx + 1, ""))

\* the array decoder after an element: i1 is where "," or "]" is expected
ArrayNext(s, values, i1) ==
    IF Ch(s, i1) = "]" THEN Ok(JArr(values), i1 + 1)
    ELSE IF Ch(s, i1) # "," THEN Fail("Expecting ',' delimiter", i1)
    ELSE ArrayLoop(s, SkipIn(s, i1 + 1, JsonWs), values)

\* the array decoder after the scan v of an element
ArrayValue(s, values, v) ==
    IF ~v.ok THEN v
    ELSE ArrayNext(s, Append(values, v.v), SkipIn(s, v.end, JsonWs))

\* the loop of the array decoder: idx is where an element is expected
ArrayLoop(s, idx, values) == ArrayValue(s, values, ScanOnce(s, idx))

\* scan_once: the JSON term that starts at idx
ScanOnce(s, idx) ==
    LET c == Ch(s, idx)
        o0 == SkipIn(s, idx + 1, JsonWs)
    IN  IF idx > Len(s) THEN Fail("Expecting value", idx)
        ELSE IF c = QUOTE THEN ScanStr(s, idx, idx + 1, "")
        ELSE IF c = "{"
             THEN IF Ch(s, o0) = "}" THEN Ok(JObj(<<>>), o0 + 1)
                  ELSE ObjectLoop(s, o0, <<>>)
        ELSE IF c = "["
             THEN IF Ch(s, o0) = "]" THEN Ok(JArr(<<>>), o0 + 1)
                  ELSE ArrayLoop(s, o0, <<>>)
        ELSE IF StartsAt(s, idx, "null") THEN Ok(JNull, idx + 4)
        ELSE IF StartsAt(s, idx, "true") THEN Ok(JBool(TRUE), idx + 4)
        ELSE IF StartsAt(s, idx, "false") THEN Ok(JBool(FALSE), idx + 5)
        ELSE IF StartsAt(s, idx, "NaN") THEN Ok(JFloat("NaN"), idx + 3)
        ELSE IF StartsAt(s, idx, "Infinity") THEN Ok(JFloat("Infinity"), idx + 8)
        ELSE IF StartsAt(s, idx, "-Infinity") THEN Ok(JFloat("-Infinity"), idx + 9)
        ELSE ScanNumber(s, idx, NumberEnd(s, idx))

\* JSONDecoder.decode after the term r: whitespace and nothing else after it
DecodeEnd(s, r) ==
    IF ~r.ok THEN r
    ELSE IF SkipIn(s, r.end, JsonWs) # Len(s) + 1
         THEN Fail("Extra data", SkipIn(s, r.end, JsonWs))
    ELSE r

\* json.loads: one term, whitespace around it, nothing after it
Loads(s) == DecodeEnd(s, ScanOnce(s, SkipIn(s, 1, JsonWs)))

\* the number of occurrences of the character c in s[1..n]
CountCh(s, c, n) == Cardinality({k \in 1..n : Ch(s, k) = c})

\* str(JSONDecodeError): "msg: line l column c (char p)"
ErrorText(s, r) ==
    LET nl == BackIn(s, r.end - 1, {Ch(s, j) : j \in 1..Len(s)} \ {NL})
    IN  r.msg \o ": line " \o ToString(CountCh(s, NL, r.end - 1) + 1)
              \o " column " \o ToString(r.end - nl)
              \o " (char " \o ToString(r.end - 1) \o ")"

(***************************************************************************)
(* fix_json (src/parser/fix_json_v2.py).  Each pass is a re.sub: a matcher *)
(* tells, for a position, whether the pattern matches there, where the     *)
(* match ends and what replaces it; ReSub scans the text from the left,    *)
(* replaces each match and goes on after it.  A match is                   *)
(* [hit, end, out]: end is the position after the match.                   *)
(***************************************************************************)
NoMatch == [hit |-> FALSE, end |-> 0, out |-> ""]

Match(end, out) == [hit |-> TRUE, end |-> end, out |-> out]

Max(a, b) == IF a >= b THEN a ELSE b

\* faulty variant of is_primitive: the numbers are forgotten
is_primitive_no_number(value) == value \in {"true", "false", "null"}

\* _is_primitive: fullmatch of [+-]?\d+(\.\d+)?|true|false|null
is_primitive(value) ==
    LET i0 == IF Ch(value, 1) \in {"+", "-"} THEN 2 ELSE 1
        i1 == SkipIn(value, i0, Digits)
        i2 == IF Ch(value, i1) = "." /\ Ch(value, i1 + 1) \in Digits
              THEN SkipIn(value, i1 + 1, Digits) ELSE i1
    IN  \/ value \in {"true", "false", "null"}
        \/ (i1 > i0 /\ i2 = Len(value) + 1)

\* the allow-list of _quote_specific_fields, in its order
string_fields == <<"OPERATION", "REFERENCE_ID", "ID", "REQUEST_ID", "REQUEST_TIME",
                   "RESPONSE_TIME", "mosip.version", "REFERENCE_URL", "BRS_URL",
                   "CBEFF_URL">>

\* [A-Za-z0-9_.-]
WordChars == LowerLetters \cup UpperLetters \cup Digits \cup {"_", ".", "-"}

\* [A-Za-z0-9_.\$]
JavaClassChars == LowerLetters \cup UpperLetters \cup Digits \cup {"_", ".", "$"}

\* ":\s*(?=[,}])  ->  ":""
MatchEmptyValue(s, i) ==
    LET j == SkipIn(s, i + 2, PyWs)
    IN  IF Ch(s, i) = QUOTE /\ Ch(s, i + 1) = ":" /\ Ch(s, j) \in {",", "}"}
        THEN Match(j, QUOTE \o ":" \o QUOTE \o QUOTE)
        ELSE NoMatch

\* ("FIELD"\s*:\s*)([^,\}\n]*?)(\s*[,}]) at position i: the three groups
\* [hit, prefix, value, ending, end]; the lazy group 2 stops where the
\* whitespace before the first , or } starts, and holds no \n
FieldGroups(field, s, i) ==
    LET lit == QUOTE \o field \o QUOTE
        a == SkipIn(s, i + Len(lit), PyWs)
        start == SkipIn(s, a + 1, PyWs)
        d == SkipNotIn(s, start, {",", "}"})
        p == Max(start, BackIn(s, d - 1, PyWs) + 1)
    IN  IF StartsAt(s, i, lit) /\ Ch(s, a) = ":" /\ d <= Len(s)
           /\ ~Contains(SubSeq(s, start, p - 1), NL)
        THEN [hit |-> TRUE, prefix |-> SubSeq(s, i, start - 1),
              value |-> SubSeq(s, start, p - 1), ending |-> SubSeq(s, p, d),
              end |-> d + 1]
        ELSE [hit |-> FALSE, prefix |-> "", value |-> "", ending |-> "", end |-> 0]

\* repl of _quote_specific_fields (lines 43-55) on the groups g of a match
\* at i, value being the stripped group 2
repl(s, i, g, value) ==
    IF ~g.hit THEN NoMatch
    ELSE IF value = "" THEN Match(g.end, g.prefix \o QUOTE \o QUOTE \o g.ending)
    ELSE IF Ch(value, 1) \in {"{", "[", QUOTE} \/ is_primitive(value)
         THEN Match(g.end, SubSeq(s, i, g.end - 1))
    ELSE Match(g.end, g.prefix \o QUOTE \o value \o QUOTE \o g.ending)

\* one match of the pattern of _quote_specific_fields for field, replaced
MatchStringField(field, s, i) ==
    repl(s, i, FieldGroups(field, s, i), Strip(FieldGroups(field, s, i).value))

\* repl_request_message (lines 69-77) on the groups g of a match at i
repl_request_message(s, i, g, value) ==
    IF ~g.hit THEN NoMatch
    ELSE IF Ch(value, 1) \in {"{", "[", QUOTE}
         THEN Match(g.end, SubSeq(s, i, g.end - 1))
    ELSE Match(g.end, g.prefix \o QUOTE \o value \o QUOTE \o g.ending)

\* one match of the REQUEST_MESSAGE pattern (line 80), replaced
MatchRequestMessage(s, i) ==
    repl_request_message(s, i, FieldGroups("REQUEST_MESSAGE", s, i),
                         Strip(FieldGroups("REQUEST_MESSAGE", s, i).value))

\* fullmatch of \[B@[0-9A-Fa-f]+\]?
IsByteArrayDump(value) ==
    LET h == SkipIn(value, 4, HexDigits)
    IN  /\ StartsWith(value, "[B@")
        /\ h > 4
        /\ (h = Len(value) + 1 \/ (h = Len(value) /\ Ch(value, h) = "]"))

\* repl_cbeff (lines 84-95) on the groups g of a match at i
repl_cbeff(s, i, g, value) ==
    IF ~g.hit THEN NoMatch
    ELSE IF IsByteArrayDump(value)
         THEN Match(g.end, g.prefix \o QUOTE \o value \o QUOTE \o g.ending)
    ELSE IF value # "" /\ (Ch(value, 1) \in {"{", "[", QUOTE} \/ is_primitive(value))
         THEN Match(g.end, SubSeq(s, i, g.end - 1))
    ELSE Match(g.end, g.prefix \o QUOTE \o value \o QUOTE \o g.ending)

\* one match of the CBEFF_DATA pattern (line 98), replaced
MatchCbeff(s, i) ==
    repl_cbeff(s, i, FieldGroups("CBEFF_DATA", s, i),
               Strip(FieldGroups("CBEFF_DATA", s, i).value))

\* ([{\[,]\s*)([A-Za-z0-9_.-]+)=  ->  \1"\2":
MatchKeyEquals(s, i) ==
    LET w == SkipIn(s, i + 1, PyWs)
        k == SkipIn(s, w, WordChars)
    IN  IF Ch(s, i) \in {"{", "[", ","} /\ k > w /\ Ch(s, k) = "="
        THEN Match(k + 1, SubSeq(s, i, w - 1) \o QUOTE \o SubSeq(s, w, k - 1)
                          \o QUOTE \o ":")
        ELSE NoMatch

\* ([\[,]\s*)([^,\]\s{}]+)(\s*[,]]) with quote_array: the last group is
\* whitespace, a comma and a closing bracket
MatchArrayToken(s, i) ==
    LET w == SkipIn(s, i + 1, PyWs)
        k == SkipNotIn(s, w, {",", "]", "{", "}"} \cup PyWs)
        e == SkipIn(s, k, PyWs)
        val == SubSeq(s, w, k - 1)
    IN  IF Ch(s, i) \in {"[", ","} /\ k > w /\ Ch(s, e) = "," /\ Ch(s, e + 1) = "]"
        THEN IF is_primitive(val) THEN Match(e + 2, SubSeq(s, i, e + 1))
             ELSE Match(e + 2, SubSeq(s, i, w - 1) \o QUOTE \o val \o QUOTE
                               \o SubSeq(s, k, e + 1))
        ELSE NoMatch

\* (:\s*)([^,\}\s\[][^,\}\s]*)(\s*[,}]) with quote_value
MatchColonValue(s, i) ==
    LET w == SkipIn(s, i + 1, PyWs)
        k == SkipNotIn(s, w + 1, {",", "}"} \cup PyWs)
        e == SkipIn(s, k, PyWs)
        val == SubSeq(s, w, k - 1)
    IN  IF Ch(s, i) = ":" /\ w <= Len(s) /\ Ch(s, w) \notin {",", "}", "["}
           /\ Ch(s, e) \in {",", "}"}
        THEN IF is_primitive(val) THEN Match(e + 1, SubSeq(s, i, e))
             ELSE Match(e + 1, SubSeq(s, i, w - 1) \o QUOTE \o val \o QUOTE
                               \o SubSeq(s, k, e))
        ELSE NoMatch

\* match of ^[A-Za-z0-9_.\$]+@[0-9a-fA-F]+$ or of ^\[B@[0-9a-fA-F]+\]?$
IsJavaDump(value) ==
    LET k == SkipIn(value, 1, JavaClassChars)
        h == SkipIn(value, k + 1, HexDigits)
    IN  \/ (k > 1 /\ Ch(value, k) = "@" /\ h > k + 1 /\ h = Len(value) + 1)
        \/ IsByteArrayDump(value)

\* match of ^(true|false|null|[+-]?\d+(\.\d+)?|[\{\[].*)$
IsJsonLooking(value) ==
    \/ is_primitive(value)
    \/ (Ch(value, 1) \in {"{", "["} /\ ~Contains(value, NL))

\* "([^"]+)"\s*:\s*([^",\{\[\s][^,\}\]]*?)(\s*[,\}]) with quote_root_value
\* (lines 199-221)
MatchRootValue(s, i) ==
    LET j == Find(s, QUOTE, i + 1)
        a == SkipIn(s, j + 1, PyWs)
        start == SkipIn(s, a + 1, PyWs)
        d == SkipNotIn(s, start + 1, {",", "}", "]"})
        p == BackIn(s, d - 1, PyWs) + 1
        key == SubSeq(s, i + 1, j - 1)
        value == Strip(SubSeq(s, start, p - 1))
        ending == SubSeq(s, p, d)
        quoted == QUOTE \o key \o QUOTE \o ":" \o QUOTE \o value \o QUOTE \o ending
    IN  IF Ch(s, i) = QUOTE /\ j > i + 1 /\ Ch(s, a) = ":" /\ start <= Len(s)
           /\ Ch(s, start) \notin {QUOTE, ",", "{", "["}
           /\ Ch(s, d) \in {",", "}"}
        THEN IF IsJavaDump(value) THEN Match(d + 1, quoted)
             ELSE IF IsJsonLooking(value) THEN Match(d + 1, SubSeq(s, i, d))
             ELSE Match(d + 1, quoted)
        ELSE NoMatch

\* the parts of repl in _fix_global_arrays (lines 150-158)
RECURSIVE QuoteParts(_)
QuoteParts(parts) ==
    IF parts = <<>> THEN <<>>
    ELSE LET q == Strip(Head(parts))
         IN  IF q = "" THEN QuoteParts(Tail(parts))
             ELSE IF is_primitive(q) \/ (StartsWith(q, QUOTE) /\ EndsWith(q, QUOTE))
                  THEN <<q>> \o QuoteParts(Tail(parts))
             ELSE <<QUOTE \o q \o QUOTE>> \o QuoteParts(Tail(parts))

\* \[([^\[\]]+)\] with repl (lines 144-162)
MatchSimpleArray(s, i) ==
    LET j == SkipNotIn(s, i + 1, {"[", "]"})
        inside == SubSeq(s, i + 1, j - 1)
    IN  IF Ch(s, i) = "[" /\ j > i + 1 /\ Ch(s, j) = "]"
        THEN IF Contains(inside, "{") \/ Contains(inside, "}")
             THEN Match(j + 1, SubSeq(s, i, j))
             ELSE Match(j + 1, "[" \o Join(QuoteParts(Split(inside, ",")), ",") \o "]")
        ELSE NoMatch

\* ""([^"]+)""  ->  "\1"
MatchDoubledQuotes(s, i) ==
    LET j == SkipNotIn(s, i + 2, {QUOTE})
    IN  IF StartsAt(s, i, QUOTE \o QUOTE) /\ j > i + 2 /\ StartsAt(s, j, QUOTE \o QUOTE)
        THEN Match(j + 2, QUOTE \o SubSeq(s, i + 2, j - 1) \o QUOTE)
        ELSE NoMatch

\* a pass is one re.sub of the source: its kind names the pattern and the
\* replacement, field is the name of the field for kind "field"
Pass(kind) == [kind |-> kind, field |-> ""]

\* _fix_empty_values (lines 13-15)
fix_empty_values == <<Pass("empty")>>

\* _quote_specific_fields (lines 18-59): one re.sub per field of the allow-list
quote_specific_fields ==
    [k \in 1..Len(string_fields) |-> [kind |-> "field", field |-> string_fields[k]]]

\* faulty variant of fix_map_like: key= is not turned into "key":
fix_map_like_no_keys == <<Pass("array_token"), Pass("colon_value")>>

\* _fix_map_like (lines 104-129)
fix_map_like == <<Pass("key_equals"), Pass("array_token"), Pass("colon_value")>>

\* _fix_map_like_blocks (lines 132-134)
fix_map_like_blocks == <<Pass("map_block")>>

\* _fix_java_like_values (lines 62-101)
fix_java_like_values == <<Pass("request_message"), Pass("cbeff")>>

\* the re.sub of lines 199-223 of fix_json
quote_root_values == <<Pass("root")>>

\* _fix_global_arrays (lines 137-162)
fix_global_arrays == <<Pass("array")>>

\* _dedupe_quotes (lines 165-172)
dedupe_quotes == <<Pass("dedupe")>>

\* the characters a match of the pass p can start with
FirstChars(p) ==
    CASE p.kind \in {"empty", "field", "request_message", "cbeff", "root", "dedupe"}
           -> {QUOTE}
      [] p.kind = "key_equals" -> {"{", "[", ","}
      [] p.kind = "array_token" -> {"[", ","}
      [] p.kind = "colon_value" -> {":"}
      [] p.kind = "array" -> {"["}
      [] p.kind = "map_block" -> {"{"}

RECURSIVE Apply(_, _, _)

\* \{[^{}]*\} with _fix_map_like: the brace block without inner braces that
\* starts at i and ends at j, replaced
MatchMapBlock(s, i, j) ==
    IF Ch(s, i) = "{" /\ Ch(s, j) = "}"
    THEN Match(j + 1, Apply(fix_map_like, 1, SubSeq(s, i, j)))
    ELSE NoMatch

\* the match of the pattern of the pass p at position i and its replacement
MatchAt(p, s, i) ==
    CASE p.kind = "empty" -> MatchEmptyValue(s, i)
      [] p.kind = "field" -> MatchStringField(p.field, s, i)
      [] p.kind = "request_message" -> MatchRequestMessage(s, i)
      [] p.kind = "cbeff" -> MatchCbeff(s, i)
      [] p.kind = "key_equals" -> MatchKeyEquals(s, i)
      [] p.kind = "array_token" -> MatchArrayToken(s, i)
      [] p.kind = "colon_value" -> MatchColonValue(s, i)
      [] p.kind = "root" -> MatchRootValue(s, i)
      [] p.kind = "array" -> MatchSimpleArray(s, i)
      [] p.kind = "dedupe" -> MatchDoubledQuotes(s, i)
      [] p.kind = "map_block" -> MatchMapBlock(s, i, SkipNotIn(s, i + 1, {"{", "}"}))

RECURSIVE ReSub(_, _, _, _, _)

\* re.sub after the attempt m at position j
ReSubNext(p, s, from, j, acc, m) ==
    IF m.hit THEN ReSub(p, s, m.end, m.end, acc \o SubSeq(s, from, j - 1) \o m.out)
    ELSE ReSub(p, s, from, j + 1, acc)

\* re.sub at the next position j where a match can start
ReSubAt(p, s, from, j, acc) ==
    IF j > Len(s) THEN acc \o From(s, from)
    ELSE ReSubNext(p, s, from, j, acc, MatchAt(p, s, j))

\* re.sub from position i on: the text with every match, found from the left
\* and not overlapping, replaced; acc is the result for the text before
\* position from, and no match starts in from..i-1
ReSub(p, s, from, i, acc) == ReSubAt(p, s, from, SkipNotIn(s, i, FirstChars(p)), acc)

\* the passes of the list ps, from the k-th on, applied to text one after the
\* other
Apply(ps, k, text) ==
    IF k > Len(ps) THEN text
    ELSE Apply(ps, k + 1, ReSub(ps[k], text, 1, 1, ""))

\* faulty variant of fix_json: the steps 4 and 5, which quote the Java-like
\* values and the other bare root values, are left out
fix_json_no_java(text) ==
    Apply(fix_empty_values \o quote_specific_fields \o fix_map_like_blocks
            \o fix_global_arrays \o dedupe_quotes,
          1, Strip(text))

\* fix_json (lines 175-229)
fix_json(text) ==
    Apply(fix_empty_values \o quote_specific_fields \o fix_map_like_blocks
            \o fix_java_like_values \o quote_root_values \o fix_global_arrays
            \o dedupe_quotes,
          1, Strip(text))

(***************************************************************************)
(* _fallback_flat_object (src/parser/build_full_json.py, lines 73-201).    *)
(***************************************************************************)
RSP_KEY == "RESPONSE_PUBLISHED_TO_MOSIP_QUEUE"

\* key_rsp (line 90)
key_rsp == QUOTE \o RSP_KEY \o QUOTE

\* one pass of the loop of lines 101-118 at position i; brace_end stays once set
BraceStep(st, ch, i) ==
    IF st.brace_end # 0 THEN st
    ELSE IF st.escape_next THEN [st EXCEPT !.escape_next = FALSE]
    ELSE IF ch = BACKSLASH THEN [st EXCEPT !.escape_next = TRUE]
    ELSE IF ch = QUOTE THEN [st EXCEPT !.in_string = ~@]
    ELSE IF st.in_string THEN st
    ELSE IF ch = "{" THEN [st EXCEPT !.depth = @ + 1]
    ELSE IF ch = "}"
         THEN [st EXCEPT !.depth = @ - 1,
                         !.brace_end = IF st.depth - 1 = 0 THEN i ELSE 0]
    ELSE st

\* the loop over the positions i..j, in their order
RECURSIVE BraceRange(_, _, _, _)
BraceRange(st, line, i, j) ==
    IF i > j THEN st
    ELSE IF i = j THEN BraceStep(st, Ch(line, i), i)
    ELSE LET mid == (i + j) \div 2
             half == BraceRange(st, line, i, mid)
         IN  IF half.brace_end \in Int
             THEN BraceRange(half, line, mid + 1, j)
             ELSE half

\* the loop of lines 101-118: the position of the } that closes the { at
\* brace_start, 0 if there is none (brace_end = -1)
BraceEnd(line, i, depth, in_string, escape_next) ==
    BraceRange([depth |-> depth, in_string |-> in_string,
                escape_next |-> escape_next, brace_end |-> 0],
               line, i, Len(line)).brace_end

\* lines 121-125: the parse r of the span sub, or the span itself when it does
\* not parse
ParsedOr(sub, r) == IF r.ok THEN r.v ELSE JStr(sub)

SpanValue(sub) == ParsedOr(sub, Loads(sub))

\* the outcome of lines 91-170: whether the key is in the line, the value
\* stored under it and line_for_kv
Rsp(val, line_for_kv) == [has |-> TRUE, val |-> val, line_for_kv |-> line_for_kv]

\* lines 119-143: the object span brace_start..brace_end is stored and cut out
RspSpan(line, idx, brace_start, brace_end, after_obj) ==
    Rsp(SpanValue(SubSeq(line, brace_start, brace_end)),
        IF Ch(line, after_obj) = "," THEN Upto(line, idx) \o From(line, after_obj + 1)
        ELSE IF Ch(line, after_obj) = "}" THEN Upto(line, idx) \o From(line, after_obj)
        ELSE Upto(line, idx))

\* lines 119-148: after the loop that looks for brace_end
RspBrace(line, idx, colon, brace_start, brace_end) ==
    IF brace_end # 0
    THEN RspSpan(line, idx, brace_start, brace_end,
                 SkipIn(line, brace_end + 1, {" ", "\t"}))
    ELSE Rsp(JStr(Strip(From(line, colon + 1))), Upto(line, idx))

\* lines 149-165: no { after the colon; value_end is where the value ends
RspPlain(line, idx, colon, value_end) ==
    Rsp(JStr(Strip(From(line, colon + 1))),
        IF Ch(line, value_end) = "," THEN Upto(line, idx) \o From(line, value_end + 1)
        ELSE IF value_end <= Len(line) THEN Upto(line, idx) \o From(line, value_end)
        ELSE Upto(line, idx))

\* lines 96-165: the key is at idx, its colon at colon
RspColon(line, idx, colon, brace_start) ==
    IF brace_start # 0
    THEN RspBrace(line, idx, colon, brace_start,
                  BraceEnd(line, brace_start, 0, FALSE, FALSE))
    ELSE RspPlain(line, idx, colon,
                  SkipNotIn(line, SkipIn(line, colon + 1, {" ", "\t"}), {",", "}"}))

\* lines 94-170: the key is at idx
RspKey(line, idx, colon) ==
    IF colon # 0 THEN RspColon(line, idx, colon, Find(line, "{", colon))
    ELSE Rsp(JStr(Strip(From(line, idx + Len(key_rsp)))), Upto(line, idx))

\* lines 92-170: idx is line.find(key_rsp), 0 when the key is not in the line
RspFound(line, idx) ==
    IF idx # 0 THEN RspKey(line, idx, Find(line, ":", idx))
    ELSE [has |-> FALSE, val |-> JNull, line_for_kv |-> line]

\* lines 90-170
RspExtract(line) == RspFound(line, Find(line, key_rsp, 1))

UpperText == "ABCDEFGHIJKLMNOPQRSTUVWXYZ"
LowerText == "abcdefghijklmnopqrstuvwxyz"

\* str.lower()
RECURSIVE Lower(_)
Lower(s) ==
    IF Len(s) = 0 THEN ""
    ELSE IF Len(s) = 1
         THEN IF s \in UpperLetters THEN Ch(LowerText, Find(UpperText, s, 1)) ELSE s
    ELSE Lower(SubSeq(s, 1, Len(s) \div 2)) \o Lower(From(s, Len(s) \div 2 + 1))

\* the position after a digit part \d+(_\d+)* that starts at i, i if none
RECURSIVE DigitPartEnd(_, _)
DigitPartEnd(s, i) ==
    LET k == SkipIn(s, i, Digits)
    IN  IF k = i THEN i
        ELSE IF Ch(s, k) = "_" /\ Ch(s, k + 1) \in Digits THEN DigitPartEnd(s, k + 1)
        ELSE k

\* s without its underscores
NoUnderscore(s) == Join(Split(s, "_"), "")

\* the position after the optional sign of a number
SignEnd(value) == IF Ch(value, 1) \in {"+", "-"} THEN 2 ELSE 1

\* whether int(value) returns (no ValueError): [+-]?\d+(_\d+)*
IsPyInt(value) ==
    /\ DigitPartEnd(value, SignEnd(value)) > SignEnd(value)
    /\ DigitPartEnd(value, SignEnd(value)) = Len(value) + 1
    /\ DigitCount(value) <= int_max_str_digits

\* int(value)
PyInt(value) ==
    IF Ch(value, 1) = "-"
    THEN 0 - DigitsVal(NoUnderscore(From(value, 2)), 0)
    ELSE DigitsVal(NoUnderscore(From(value, SignEnd(value))), 0)

\* the position after the exponent at i2, its digits starting at e0; i2 if none
FloatExpEnd(value, i2, e0) ==
    IF Ch(value, i2) \in {"e", "E"} /\ DigitPartEnd(value, e0) > e0
    THEN DigitPartEnd(value, e0) ELSE i2

\* float(value): the digits before the point are i0..i1-1, those after it end
\* before i2
FloatTail(value, i0, i1, i2) ==
    /\ Ch(value, i1) = "."
    /\ (i1 > i0 \/ i2 > i1 + 1)
    /\ FloatExpEnd(value, i2, IF Ch(value, i2 + 1) \in {"+", "-"} THEN i2 + 2 ELSE i2 + 1)
         = Len(value) + 1

FloatFrac(value, i0, i1) ==
    FloatTail(value, i0, i1,
              IF Ch(value, i1) = "." THEN DigitPartEnd(value, i1 + 1) ELSE i1)

\* whether float(value) returns for a value that holds a "." : a sign, digits
\* with a point (or a point with digits), an exponent
IsPyFloat(value) == FloatFrac(value, SignEnd(value), DigitPartEnd(value, SignEnd(value)))

\* lines 178-199: the value stored for the text of a value
FlatValue(value) ==
    IF StartsWith(value, QUOTE) /\ EndsWith(value, QUOTE)
    THEN JStr(SubSeq(value, 2, Len(value) - 1))
    ELSE IF Lower(value) = "true" THEN JBool(TRUE)
    ELSE IF Lower(value) = "false" THEN JBool(FALSE)
    ELSE IF Lower(value) = "null" THEN JNull
    ELSE IF Contains(value, ".")
         THEN IF IsPyFloat(value) THEN JFloat(value) ELSE JStr(value)
    ELSE IF IsPyInt(value) THEN JInt(PyInt(value))
    ELSE JStr(value)

\* "([^"\\]+)"\s*:\s*([^,}]+) at position i: [hit, key, value, end]; when
\* nothing but whitespace stands before the , or } the last group takes the
\* last whitespace character
MatchKeyValue(s, i) ==
    LET j == SkipNotIn(s, i + 1, {QUOTE, BACKSLASH})
        a == SkipIn(s, j + 1, PyWs)
        w == SkipIn(s, a + 1, PyWs)
        d == SkipNotIn(s, w, {",", "}"})
    IN  IF Ch(s, i) = QUOTE /\ j > i + 1 /\ Ch(s, j) = QUOTE /\ Ch(s, a) = ":"
           /\ (d > w \/ w > a + 1)
        THEN [hit |-> TRUE, key |-> SubSeq(s, i + 1, j - 1),
              value |-> IF d > w THEN SubSeq(s, w, d - 1) ELSE SubSeq(s, w - 1, w - 1),
              end |-> IF d > w THEN d ELSE w]
        ELSE [hit |-> FALSE, key |-> "", value |-> "", end |-> 0]

RECURSIVE GenericScan(_, _, _)

\* lines 174-199 for the attempt m at position j
GenericNext(s, j, kvs, m) ==
    IF ~m.hit THEN GenericScan(s, j + 1, kvs)
    ELSE IF m.key = RSP_KEY THEN GenericScan(s, m.end, kvs)
    ELSE GenericScan(s, m.end, Put(kvs, m.key, FlatValue(Strip(m.value))))

\* re.finditer at the next quote, at position j
GenericAt(s, j, kvs) ==
    IF j > Len(s) THEN kvs ELSE GenericNext(s, j, kvs, MatchKeyValue(s, j))

\* the loop over re.finditer (lines 173-199) from position i on
GenericScan(s, i, kvs) == GenericAt(s, SkipNotIn(s, i, {QUOTE}), kvs)

\* the three keys the object starts with (lines 78-82)
DiagnosticKeys(start_line, json_str, error) ==
    <<KV("_start_line", JInt(start_line)), KV("_raw", JStr(json_str)),
      KV("_parse_error", JStr(error))>>

\* lines 86-201: the object obj after the special key, whose outcome is r, and
\* the generic scan of line_for_kv
FlatObject(obj, r) ==
    JObj(GenericScan(r.line_for_kv, 1, IF r.has THEN Put(obj, RSP_KEY, r.val) ELSE obj))

\* _fallback_flat_object(start_line, json_str, error), error being str(error)
fallback_flat_object(start_line, json_str, error) ==
    FlatObject(DiagnosticKeys(start_line, json_str, error),
               RspExtract(Join(SplitLines(json_str), " ")))

(***************************************************************************)
(* process_content (src/parser/build_full_json.py, lines 204-251): what    *)
(* one pass of its loop does with a segment.  An outcome is what the pass  *)
(* appends to results and to errors, the steps it tried, and the exception *)
(* that leaves the pass, "" if none does.                                  *)
(***************************************************************************)
\* an exception that the except clauses of lines 234 and 243 do not catch
\* leaves process_content; r is the parse that raised
Uncaught(r, tried) == [values |-> <<>>, diags |-> <<>>, tried |-> tried, raised |-> r.exc]

\* faulty variant of SegmentSkipped: short segments are skipped too
SegmentSkippedShort(json_str) == Len(Strip(json_str)) < 8

\* line 226: a blank segment is skipped
SegmentSkipped(json_str) == Strip(json_str) = ""

\* line 249: the diagnostic of a segment that took the fallback
Diagnostic(start_line, last_error) ==
    "Ligne " \o ToString(start_line) \o ": JSONDecodeError - " \o last_error

\* faulty variant of LastError: the error of the parse of the raw text is kept
LastErrorRaw(e_raw, e_fixed) == e_raw

\* lines 233 and 243: last_error after both parses failed
LastError(e_raw, e_fixed) == e_fixed

\* lines 246-249: the fallback object and its diagnostic
TryFallback(start_line, json_str, last_error) ==
    [values |-> <<fallback_flat_object(start_line, json_str, last_error)>>,
     diags |-> <<Diagnostic(start_line, last_error)>>,
     tried |-> <<"strict", "fix_json", "fallback">>,
     raised |-> ""]

\* faulty variant of TryFixed: a diagnostic is appended as soon as the parse of the raw
\* text has failed
TryFixedNoisy(start_line, json_str, raw, fixed, parsed) ==
    IF parsed.ok
    THEN [values |-> <<parsed.v>>,
          diags |-> <<Diagnostic(start_line, ErrorText(json_str, raw))>>,
          tried |-> <<"strict", "fix_json">>, raised |-> ""]
    ELSE IF parsed.exc # "JSONDecodeError" THEN Uncaught(parsed, <<"strict", "fix_json">>)
    ELSE TryFallback(start_line, json_str, ErrorText(fixed, parsed))

\* lines 238-243: parsed is the parse of the repaired text fixed
TryFixed(start_line, json_str, raw, fixed, parsed) ==
    IF parsed.ok
    THEN [values |-> <<parsed.v>>, diags |-> <<>>, tried |-> <<"strict", "fix_json">>,
          raised |-> ""]
    ELSE IF parsed.exc # "JSONDecodeError" THEN Uncaught(parsed, <<"strict", "fix_json">>)
    ELSE TryFallback(start_line, json_str,
                     LastError(ErrorText(json_str, raw), ErrorText(fixed, parsed)))

\* lines 236-243: fixed is fix_json(json_str)
TryFixJson(start_line, json_str, raw, fixed) ==
    TryFixed(start_line, json_str, raw, fixed, Loads(fixed))

\* faulty variant of TryStrict: the text is repaired whether or not the parse
\* of the raw text succeeded
TryStrictAlwaysFix(start_line, json_str, raw) ==
    TryFixJson(start_line, json_str, raw, fix_json(json_str))

\* lines 229-243: raw is the parse of the raw text
TryStrict(start_line, json_str, raw) ==
    IF raw.ok
    THEN [values |-> <<raw.v>>, diags |-> <<>>, tried |-> <<"strict">>, raised |-> ""]
    ELSE IF raw.exc # "JSONDecodeError" THEN Uncaught(raw, <<"strict">>)
    ELSE TryFixJson(start_line, json_str, raw, fix_json(json_str))

\* lines 226-249 for one segment
ProcessOne(start_line, json_str) ==
    IF SegmentSkipped(json_str)
    THEN [values |-> <<>>, diags |-> <<>>, tried |-> <<>>, raised |-> ""]
    ELSE TryStrict(start_line, json_str, Loads(json_str))

\* faulty variant of ReturnedObjects: the open segment is flushed at the end of input
ReturnedObjectsFlush(objs, cur_obj) ==
    IF cur_obj # <<>> THEN Append(objs, <<0, Join(cur_obj, NL)>>) ELSE objs

\* line 70: what extract_json_objects returns
ReturnedObjects(objs, cur_obj) == objs

(***************************************************************************)
(* The inputs of the model.                                                *)
(***************************************************************************)
\* a brace-balanced object on one line
StrictLine == "{\"a\":1}"

\* a brace-balanced object on 5 lines
FiveLines == "{\n\"b\":\n2\n,\"c\":3\n}"

\* an object fix_json repairs
Repairable == "{\"a\": b c}"

\* an object that neither parses nor is repaired
Broken == "{\"a\":1 \"b\":2}"

\* the chunks a log content is made of
Chunks == {StrictLine, FiveLines, Repairable, Broken,
           "}", "\"", "{\"a\":", "{\"a\":1},", "\\"}

\* a fallback segment with the nested object under the special key
RspObjectSegment ==
    "{\"x\":1 \"y\":2,\"RESPONSE_PUBLISHED_TO_MOSIP_QUEUE\":{\"a\":1,\"b\":[1,2]}}"

\* the text s, n times
RECURSIVE Repeat(_, _)
Repeat(s, n) ==
    IF n = 0 THEN ""
    ELSE IF n = 1 THEN s
    ELSE Repeat(s, n \div 2) \o Repeat(s, n - n \div 2)

\* an object whose value is an integer of one digit more than int() takes
LongIntSegment == "{\"a\":" \o Repeat("1", int_max_str_digits + 1) \o "}"

\* an open object, a line that takes brace_depth below 0, and a lone {
NegativeDepthContent == "{\"a\":\n}}\n{"

\* log contents besides the sequences of chunks
ExtraContents ==
    {RspObjectSegment, LongIntSegment, NegativeDepthContent,
     "{\"k\":1 2,\n\"RESPONSE_PUBLISHED_TO_MOSIP_QUEUE\":\n{\"a\":\"}{\"},\"m\":3}"}

ChunkSeqs == UNION {[1..n -> Chunks] : n \in 0..MaxChunks}
                \cup {<<c>> : c \in ExtraContents}

\* the raw texts of the direct calls of _fallback_flat_object
FallbackTexts ==
    {Broken,
     RspObjectSegment,
     "{\"x\": y z, \"RESPONSE_PUBLISHED_TO_MOSIP_QUEUE\" : {\"a\":\"}{\",\"b\":[1,2]} , \"k\": 1.5}",
     "{\"x\":1 \"y\":2,\n\"RESPONSE_PUBLISHED_TO_MOSIP_QUEUE\":\n{\"a\":\n{\"c\":\"\\\"}\"}}\n}",
     "{\"x\":1 \"y\":2,\"RESPONSE_PUBLISHED_TO_MOSIP_QUEUE\":{a=1},\"RESPONSE_PUBLISHED_TO_MOSIP_QUEUE\":{\"a\":1}}",
     "{\"x\": y z, \"RESPONSE_PUBLISHED_TO_MOSIP_QUEUE\": {a=1}, \"k\": 2}",
     "{\"x\":1 \"y\":2, \"RESPONSE_PUBLISHED_TO_MOSIP_QUEUE\": [1,2]}",
     "{\"x\":1 \"y\":2, \"RESPONSE_PUBLISHED_TO_MOSIP_QUEUE\": [{\"a\":1},{\"b\":2}]}",
     "{\"x\": y z, \"RESPONSE_PUBLISHED_TO_MOSIP_QUEUE\": \"s\", \"k\": {\"a\":1}}",
     "{\"x\":1 \"y\":2, \"RESPONSE_PUBLISHED_TO_MOSIP_QUEUE\": \"s\", \"k\": {\"a\":1}, \"m\":3}",
     "{\"_raw\": 1, \"a\": b c}",
     "{\"_raw\": 1 \"a\": 2}",
     "{\"_start_line\": 9, \"_parse_error\": \"z\" q}",
     "{\"a\": TRUE, \"b\": 1_0, \"c\": 1.5, \"d\": \"e\", \"f\": nUll, \"g\": }",
     ""}

\* the errors of the direct calls of _fallback_flat_object
FallbackErrors == {"Expecting value: line 1 column 1 (char 0)", "boom"}

\* the texts of the direct calls of fix_json
FixTexts ==
    {StrictLine, FiveLines, Repairable, Broken,
     "{\"a\": [1, 2]}",
     "{\"a\":\"\"}",
     "{\"a\":\"x=y\",\"b\":\"\",\"c\":[\"\",\"\"]}",
     "{\"a\":\"b,c=d\"}",
     "{\"a\":\"[x]\"}",
     " {\"a\": {\"b\": \"c d\"}, \"e\": [1,true,\"f\"]} ",
     "{\"a\":,\"b\":}",
     "{\"a\":{\"b\":,\"c\":1}}",
     "{\"x\":{\"y\":1},\"a\":}",
     "{\"REQUEST_ID\": abc123, \"VALUE\": 42}",
     "{\"BRS_REQUEST\": {SEX=F, MODALITIES=[FINGER, IRIS]}}",
     "{\"REQUEST_MESSAGE\": idemia.brs.mosip.data.MosipBaseData@1a2b3c4d}",
     "{\"REQUEST_MESSAGE\": idemia.brs.mosip.data.MosipBaseData@1a2b3c4d, \"X\": {\"y\": 1}}",
     "{\"X\":{\"y\":{\"z\":[1]}},\n\"REQUEST_MESSAGE\":idemia.brs.mosip.data.MosipBaseData@1a2b3c4d ,\"k\":[A, B]}",
     "{\"CBEFF_DATA\": [B@1a2b3c, \"k\": v}"}

(***************************************************************************)
(* The state machine: a call of process_content (the scan of                *)
(* extract_json_objects line by line, then the loop over the segments), a  *)
(* call of fix_json, or a call of _fallback_flat_object.                   *)
(***************************************************************************)
VARIABLES
    pc,                  \* "idle", "scan", "process", "done", "raised", "fixed",
                         \* "fellback"
    chunks,              \* the chunks the content is made of
    content,             \* the argument of process_content
    lines,               \* content.split("\n")
    line_num,            \* the number of lines scanned
    objects,             \* extract_json_objects: the segments emitted
    current_obj,         \* the lines accumulated for the open segment
    current_start_line,
    brace_depth,
    in_string,
    escape_next,
    json_objects,        \* process_content: the segments extract_json_objects returned
    seg,                 \* the number of segments the loop has been through
    results,
    errors,
    tried,               \* per segment gone through, the steps tried on it
    fix_in,              \* the argument of a call of fix_json
    fix_out,             \* what it returned
    fb_in,               \* the arguments of a call of _fallback_flat_object
    fb_out               \* what it returned

scanner == <<objects, current_obj, current_start_line, brace_depth, in_string,
             escape_next>>

process == <<json_objects, seg, results, errors, tried>>

calls == <<fix_in, fix_out, fb_in, fb_out>>

\* The storage directories and the database main, decompress_audit_gz_in_inputs
\* and persist_all_json_to_db work on.  A file is a record with its directory
\* (relative to the storage root), its name and what it holds.
VARIABLES
    gz_files,            \* the *.log.gz files: [dir, name, kind, raw]; raw is what
                         \* decompression writes before it ends or fails
    log_files,           \* the *.log files: [dir, name, raw]
    json_files,          \* the *.json files: [dir, name, is_list, events]
    stats_files,         \* the *_stats.log files: [dir, name, parsed_events]
    committed,           \* the rows committed to abis.events: <<source_file, payload>>
    caller,              \* "explicit" or "batch" (main), "direct"
    backups_root,        \* whether decompress_audit_gz_in_inputs was given one
    input_log,           \* main: the log file being processed, <<>> if none
    todo,                \* the names the running loop still has to go through
    created_logs,        \* decompress_audit_gz_in_inputs: the names decompressed
    error_count,
    failed,              \* the names reported as impossible to decompress
    runs                 \* the number of calls made so far

storage == <<gz_files, log_files, json_files, stats_files, committed, caller,
             backups_root, input_log, todo, created_logs, error_count, failed, runs>>

vars == <<pc, chunks, content, lines, line_num, scanner, process, calls, storage>>

\* the scanner's variables as the record ScanChar works on
ScanState == [objects |-> objects, current_obj |-> current_obj,
              current_start_line |-> current_start_line,
              brace_depth |-> brace_depth, in_string |-> in_string,
              escape_next |-> escape_next]

Init ==
    /\ pc = "idle"
    /\ chunks = <<>>
    /\ content = ""
    /\ lines = <<>>
    /\ line_num = 0
    /\ objects = <<>>
    /\ current_obj = <<>>
    /\ current_start_line = 0
    /\ brace_depth = 0
    /\ in_string = FALSE
    /\ escape_next = FALSE
    /\ json_objects = <<>>
    /\ seg = 0
    /\ results = <<>>
    /\ errors = <<>>
    /\ tried = <<>>
    /\ fix_in = ""
    /\ fix_out = ""
    /\ fb_in = <<>>
    /\ fb_out = JNull
    /\ gz_files = {}
    /\ log_files = {}
    /\ json_files = {}
    /\ stats_files = {}
    /\ committed = <<>>
    /\ caller = ""
    /\ backups_root = FALSE
    /\ input_log = <<>>
    /\ todo = <<>>
    /\ created_logs = <<>>
    /\ error_count = 0
    /\ failed = {}
    /\ runs = 0

\* process_content(content) is called: lines 214-217 and 27-34
CallProcessContent ==
    /\ pc = "idle"
    /\ \E cs \in ChunkSeqs :
         /\ chunks' = cs
         /\ content' = Join(cs, NL)
         /\ lines' = Split(Join(cs, NL), NL)
    /\ pc' = "scan"
    /\ UNCHANGED <<line_num, scanner, process, calls,
                   storage>>

\* one pass of the loop over the lines (lines 36-68)
ScanLine ==
    /\ pc = "scan"
    /\ line_num < Len(lines)
    /\ LET st == ScanLineOp(ScanState, lines[line_num + 1], line_num + 1)
       IN  /\ objects' = st.objects
           /\ current_obj' = st.current_obj
           /\ current_start_line' = st.current_start_line
           /\ brace_depth' = st.brace_depth
           /\ in_string' = st.in_string
           /\ escape_next' = st.escape_next
    /\ line_num' = line_num + 1
    /\ UNCHANGED <<pc, chunks, content, lines, process, calls,
                   storage>>

\* extract_json_objects returns (line 70) into json_objects (line 217)
ExtractReturn ==
    /\ pc = "scan"
    /\ line_num = Len(lines)
    /\ json_objects' = ReturnedObjects(objects, current_obj)
    /\ pc' = "process"
    /\ UNCHANGED <<chunks, content, lines, line_num, scanner, seg, results, errors,
                   tried, calls,
                   storage>>

\* lines 231, 240, 247 and 249: the outcome r of a pass is appended
AppendOutcome(r) ==
    /\ results' = results \o r.values
    /\ errors' = errors \o r.diags
    /\ tried' = Append(tried, r.tried)

\* one pass of the loop over the segments (lines 225-249)
ProcessSegment ==
    /\ pc = "process"
    /\ seg < Len(json_objects)
    /\ ProcessOne(json_objects[seg + 1][1], json_objects[seg + 1][2]).raised = ""
    /\ AppendOutcome(ProcessOne(json_objects[seg + 1][1], json_objects[seg + 1][2]))
    /\ seg' = seg + 1
    /\ UNCHANGED <<pc, chunks, content, lines, line_num, scanner, json_objects, calls,
                   storage>>

\* a pass of the loop over the segments raises an exception that no except
\* clause of process_content catches: the call ends without returning
ProcessRaise ==
    /\ pc = "process"
    /\ seg < Len(json_objects)
    /\ ProcessOne(json_objects[seg + 1][1], json_objects[seg + 1][2]).raised # ""
    /\ tried' = Append(tried, ProcessOne(json_objects[seg + 1][1],
                                         json_objects[seg + 1][2]).tried)
    /\ pc' = "raised"
    /\ UNCHANGED <<chunks, content, lines, line_num, scanner, json_objects, seg, results,
                   errors, calls,
                   storage>>

\* process_content returns (line 251)
ProcessReturn ==
    /\ pc = "process"
    /\ seg = Len(json_objects)
    /\ pc' = "done"
    /\ UNCHANGED <<chunks, content, lines, line_num, scanner, process, calls,
                   storage>>

\* fix_json(text) is called and returns
CallFixJson ==
    /\ pc = "idle"
    /\ \E text \in FixTexts :
         /\ fix_in' = text
         /\ fix_out' = fix_json(text)
    /\ pc' = "fixed"
    /\ UNCHANGED <<chunks, content, lines, line_num, scanner, process, fb_in, fb_out,
                   storage>>

\* _fallback_flat_object(start_line, json_str, error) is called and returns
CallFallback ==
    /\ pc = "idle"
    /\ \E start_line \in 1..MaxStartLine, json_str \in FallbackTexts,
           error \in FallbackErrors :
         /\ fb_in' = <<start_line, json_str, error>>
         /\ fb_out' = fallback_flat_object(start_line, json_str, error)
    /\ pc' = "fellback"
    /\ UNCHANGED <<chunks, content, lines, line_num, scanner, process, fix_in, fix_out,
                   storage>>

Next ==
    \/ CallProcessContent
    \/ ScanLine
    \/ ExtractReturn
    \/ ProcessSegment
    \/ ProcessRaise
    \/ ProcessReturn
    \/ CallFixJson
    \/ CallFallback

Spec == Init /\ [][Next]_vars

(***************************************************************************)
(* The claims.                                                             *)
(***************************************************************************)
\* the members of a sequence
Members(f) == {f[i] : i \in 1..Len(f)}

\* whether the i-th segment took the fallback
TookFallback(i) == "fallback" \in Members(tried[i])

\* the number of segments among the first i that took the fallback
FallbackRank(i) == Cardinality({j \in 1..i : TookFallback(j)})

\* whether both the parse of the raw text and the parse of the repaired text fail
BothParsesFail(json_str) == ~Loads(json_str).ok /\ ~Loads(fix_json(json_str)).ok

\* str() of the error of the parse of the repaired text
RepairedError(json_str) == ErrorText(fix_json(json_str), Loads(fix_json(json_str)))

\* C1: when process_content has returned, results holds exactly one value per
\* segment that extract_json_objects returns for the same content, and the
\* i-th value is the outcome of the i-th segment.
C1_OneValuePerSegment ==
    pc = "done" =>
        /\ json_objects = extract_json_objects(content)
        /\ Len(results) = Len(json_objects)
        /\ \A i \in 1..Len(json_objects) :
               ProcessOne(json_objects[i][1], json_objects[i][2]).values = <<results[i]>>

\* three segments of three kinds gave three values
C1_Witness ==
    /\ pc = "done"
    /\ Len(json_objects) = 3
    /\ Len(results) = 3
    /\ tried = <<<<"strict">>, <<"strict", "fix_json">>, <<"strict", "fix_json", "fallback">>>>

\* whether the line, by itself, is a brace-balanced object that starts with {
\* and ends with }
IsObjectLine(line) == Ch(line, 1) = "{" /\ BraceEnd(line, 1, 0, FALSE, FALSE) = Len(line)

\* C2: a line that by itself is a brace-balanced object is the text of a
\* segment and yields one value, whatever the lines before it (here: lines
\* that open no object, such as a stray } or an unbalanced quote).
C2_NoRecordLost ==
    pc = "done" =>
        \A k \in 1..Len(lines) :
            (IsObjectLine(lines[k]) /\ \A j \in 1..(k - 1) : ~Contains(lines[j], "{"))
                => \E i \in 1..Len(json_objects) :
                       json_objects[i][2] = lines[k] /\ i <= Len(results)

\* C3: the object _fallback_flat_object returns holds the start line, the raw
\* text and the error under its three diagnostic keys, whatever the raw text.
C3_FallbackTotality ==
    pc = "fellback" =>
        /\ fb_out.t = "obj"
        /\ HasKey(fb_out, "_start_line") /\ Get(fb_out, "_start_line") = JInt(fb_in[1])
        /\ HasKey(fb_out, "_raw") /\ Get(fb_out, "_raw") = JStr(fb_in[2])
        /\ HasKey(fb_out, "_parse_error") /\ Get(fb_out, "_parse_error") = JStr(fb_in[3])

\* C4: a segment has a diagnostic if and only if the parse of its raw text and
\* the parse of its repaired text both failed, that is if and only if it took
\* the fallback; there are as many diagnostics as fallback outcomes and the
\* k-th diagnostic is the one of the k-th such segment.
C4_DiagnosticIffFallback ==
    pc \in {"process", "done"} =>
        /\ Len(tried) = seg
        /\ \A i \in 1..seg : TookFallback(i) <=> BothParsesFail(json_objects[i][2])
        /\ Len(errors) = FallbackRank(seg)
        /\ \A i \in 1..seg :
               TookFallback(i) =>
                   StartsWith(errors[FallbackRank(i)],
                              "Ligne " \o ToString(json_objects[i][1]) \o ":")

\* a strict segment, then two fallback segments, gave two diagnostics
C4_Witness ==
    /\ pc = "done"
    /\ tried = <<<<"strict">>, <<"strict", "fix_json", "fallback">>,
                 <<"strict", "fix_json", "fallback">>>>
    /\ Len(errors) = 2

\* C5 as stated: the diagnostic of a fallback segment is
\* "Line {start_line}: JSONDecodeError - {last_error}".
C5_DiagnosticLine ==
    pc = "done" =>
        \A i \in 1..Len(tried) :
            TookFallback(i) =>
                errors[FallbackRank(i)] =
                    "Line " \o ToString(json_objects[i][1]) \o ": JSONDecodeError - "
                            \o RepairedError(json_objects[i][2])

\* C5 as amended: the diagnostic of a fallback segment is
\* "Ligne {start_line}: JSONDecodeError - {last_error}", start_line being the
\* segment's start line and last_error the last parse error retained, the one
\* of the parse of the repaired text.
C5_DiagnosticLigne ==
    pc = "done" =>
        \A i \in 1..Len(tried) :
            TookFallback(i) =>
                errors[FallbackRank(i)] =
                    "Ligne " \o ToString(json_objects[i][1]) \o ": JSONDecodeError - "
                             \o RepairedError(json_objects[i][2])

\* a fallback segment whose raw text and repaired text fail at different places
C5_Witness ==
    /\ pc = "done"
    /\ chunks = <<StrictLine, Broken>>
    /\ errors = <<"Ligne 2: JSONDecodeError - Expecting ',' delimiter: line 1 column 10 (char 9)">>

\* the number of lines of the chunks before the i-th
RECURSIVE LinesBefore(_, _)
LinesBefore(cs, i) ==
    IF i <= 1 THEN 0 ELSE LinesBefore(cs, i - 1) + Len(Split(cs[i - 1], NL))

\* whether the chunk is a brace-balanced object on a run of whole lines
IsWholeObject(chunk) ==
    Ch(chunk, 1) = "{" /\ BraceEnd(chunk, 1, 0, FALSE, FALSE) = Len(chunk)

\* C6: for a content made of brace-balanced objects that each take a run of
\* whole lines, extract_json_objects returns one segment per object, in their
\* order: its text is the object's lines joined by newline and its start line
\* the 1-based number of the object's first line.
C6_MultiLine ==
    (pc \in {"process", "done"} /\ \A i \in 1..Len(chunks) : IsWholeObject(chunks[i])) =>
        json_objects = [i \in 1..Len(chunks) |-> <<LinesBefore(chunks, i) + 1, chunks[i]>>]

\* a one-line object, an object on 5 lines and a one-line object
C6_Witness ==
    /\ pc = "done"
    /\ chunks = <<StrictLine, FiveLines, StrictLine>>
    /\ json_objects = <<<<1, StrictLine>>, <<2, FiveLines>>, <<7, StrictLine>>>>

\* C7: when brace_depth is not 0 after the last line, extract_json_objects
\* returns the segments emitted so far and none for the lines accumulated for
\* the open segment, and process_content has no value and no diagnostic for
\* them.
C7_OpenSegmentDropped ==
    (pc \in {"process", "done"} /\ brace_depth # 0) =>
        /\ json_objects = objects
        /\ pc = "done" => Len(results) = Len(json_objects)
        /\ current_obj # <<>> =>
               /\ \A i \in 1..Len(json_objects) :
                      /\ json_objects[i][1] # current_start_line
                      /\ json_objects[i][2] # Join(current_obj, NL)
               /\ \A k \in 1..Len(errors) :
                      ~StartsWith(errors[k],
                                  "Ligne " \o ToString(current_start_line) \o ":")

\* a segment was emitted, then lines stayed open at the end of the input
C7_Witness ==
    /\ pc = "done"
    /\ brace_depth > 0
    /\ current_obj # <<>>
    /\ Len(json_objects) = 2
    /\ Len(results) = 2

\* the position of the value that follows the special key at position k of
\* text (after the key, its colon and the whitespace around it), 0 if no colon
\* follows the key
RspValueAt(text, k) ==
    IF Ch(text, SkipIn(text, k + Len(key_rsp), JsonWs)) = ":"
    THEN SkipIn(text, SkipIn(text, k + Len(key_rsp), JsonWs) + 1, JsonWs)
    ELSE 0

\* the positions of the values that follow the special key in text
RspValueStarts(text) ==
    {RspValueAt(text, k) : k \in {k \in 1..Len(text) : StartsAt(text, k, key_rsp)}} \ {0}

\* the strict-JSON values of tag t whose text starts at position o of text and
\* ends with the character close
TermsAt(text, o, t, close) ==
    {Loads(SubSeq(text, o, e)).v :
        e \in {e \in o..Len(text) : /\ Ch(text, e) = close
                                    /\ Loads(SubSeq(text, o, e)).ok
                                    /\ Loads(SubSeq(text, o, e)).v.t = t}}

\* whether the fallback object obj of the raw text holds, under the special
\* key, the structured value of tag t that follows the key in the text
RspPreserved(text, obj, t, open, close) ==
    \A o \in RspValueStarts(text) :
        Ch(text, o) = open =>
            \A v \in TermsAt(text, o, t, close) :
                HasKey(obj, RSP_KEY) /\ Get(obj, RSP_KEY) = v

\* C8: whenever a segment that takes the fallback holds the special key
\* followed by a brace-balanced strict-JSON object, the fallback object holds
\* under the key the structured object equal to the parse of that span.
C8_NestedObjectPreserved ==
    /\ (pc = "fellback" /\ BothParsesFail(fb_in[2])) =>
           RspPreserved(fb_in[2], fb_out, "obj", "{", "}")
    /\ pc = "done" =>
           \A i \in 1..Len(tried) :
               TookFallback(i) =>
                   RspPreserved(json_objects[i][2], results[i], "obj", "{", "}")

\* C9: when the value under the special key of a fallback segment is a
\* strict-JSON array, the fallback object holds it as the structured array.
C9_ArrayPreserved ==
    (pc = "fellback" /\ BothParsesFail(fb_in[2])) =>
        RspPreserved(fb_in[2], fb_out, "arr", "[", "]")

\* C10: fix_json returns every text that is already strict JSON unchanged.
C10_Idempotent ==
    pc = "fixed" => (Loads(fix_in).ok => fix_out = fix_in)

\* the positions of the quote that ends a key whose value position is empty:
\* the key's colon is followed, after whitespace at most, by , or }
EmptyValueKeyEnds(text) ==
    {i \in 1..Len(text) : /\ Ch(text, i) = QUOTE
                          /\ Ch(text, i + 1) = ":"
                          /\ Ch(text, SkipIn(text, i + 2, PyWs)) \in {",", "}"}}

\* the key whose closing quote is at position i of text
KeyEndingAt(text, i) == SubSeq(text, BackIn(text, i - 1, {c \in {Ch(text, j) : j \in 1..Len(text)} : c # QUOTE}) + 1, i - 1)

\* whether the value v holds, at any depth, an object that maps the key k to ""
RECURSIVE MapsToEmpty(_, _)
MapsToEmpty(v, k) ==
    \/ v.t = "obj" /\ HasKey(v, k) /\ Get(v, k) = JStr("")
    \/ v.t \in {"obj", "arr", "kv"} /\ \E i \in 1..Len(v.xs) : MapsToEmpty(v.xs[i], k)

\* C11: when the text given to fix_json holds a key whose value position is
\* empty, the text fix_json returns parses as strict JSON and maps that key to
\* the empty string, in flat objects as in nested ones.
C11_EmptyValueNormalized ==
    pc = "fixed" =>
        \A i \in EmptyValueKeyEnds(fix_in) :
            /\ Loads(fix_out).ok
            /\ MapsToEmpty(Loads(fix_out).v, KeyEndingAt(fix_in, i))

\* the text of the spec's example of allow-listed quoting
AllowListed == "{\"REQUEST_ID\": abc123, \"VALUE\": 42}"

\* C12 as stated: fix_json repairs {"REQUEST_ID": abc123, "VALUE": 42} to the
\* text {"REQUEST_ID":"abc123","VALUE":42}.
C12_AllowListedCompact ==
    (pc = "fixed" /\ fix_in = AllowListed) =>
        fix_out = "{\"REQUEST_ID\":\"abc123\",\"VALUE\":42}"

\* C12 as amended: fix_json repairs {"REQUEST_ID": abc123, "VALUE": 42} to the
\* text {"REQUEST_ID": "abc123", "VALUE": 42}, the whitespace of the input
\* kept: the bare value of the allow-listed field is a quoted string and the
\* number of the other field is left unquoted, so that the text parses to
\* the value {"REQUEST_ID":"abc123","VALUE":42}.
C12_AllowListedQuoted ==
    (pc = "fixed" /\ fix_in = AllowListed) =>
        /\ fix_out = "{\"REQUEST_ID\": \"abc123\", \"VALUE\": 42}"
        /\ Loads(fix_out).ok
        /\ Loads(fix_out).v = JObj(<<KV("REQUEST_ID", JStr("abc123")), KV("VALUE", JInt(42))>>)

\* fix_json has returned for the example
C12_Witness == pc = "fixed" /\ fix_in = AllowListed /\ fix_out # fix_in

\* the text of the spec's example of a map-like block
MapLike == "{\"BRS_REQUEST\": {SEX=F, MODALITIES=[FINGER, IRIS]}}"

\* C13: the text fix_json returns for {"BRS_REQUEST": {SEX=F,
\* MODALITIES=[FINGER, IRIS]}} parses as strict JSON to the value
\* {"BRS_REQUEST":{"SEX":"F","MODALITIES":["FINGER","IRIS"]}}.
C13_MapLikeConverted ==
    (pc = "fixed" /\ fix_in = MapLike) =>
        /\ Loads(fix_out).ok
        /\ Loads(fix_out).v =
               JObj(<<KV("BRS_REQUEST",
                         JObj(<<KV("SEX", JStr("F")),
                                KV("MODALITIES", JArr(<<JStr("FINGER"), JStr("IRIS")>>))>>))>>)

\* fix_json has returned the repaired map-like block
C13_Witness ==
    /\ pc = "fixed"
    /\ fix_in = MapLike
    /\ fix_out = "{\"BRS_REQUEST\": {\"SEX\":\"F\", \"MODALITIES\":[\"FINGER\",\"IRIS\"]}}"

\* the Java dump of the spec's example
JavaDump == "idemia.brs.mosip.data.MosipBaseData@1a2b3c4d"

\* whether the value of the field REQUEST_MESSAGE of text is the bare dump
HasBareDump(text) ==
    /\ Find(text, "\"REQUEST_MESSAGE\"", 1) # 0
    /\ Ch(text, SkipIn(text, Find(text, "\"REQUEST_MESSAGE\"", 1) + 17, JsonWs)) = ":"
    /\ StartsAt(text,
                SkipIn(text, SkipIn(text, Find(text, "\"REQUEST_MESSAGE\"", 1) + 17, JsonWs) + 1,
                       JsonWs),
                JavaDump)

\* whether text has braces inside its outermost braces
HasNestedObject(text) == Find(text, "{", Find(text, "{", 1) + 1) # 0

\* whether the dump stands in text, each time between one quote and one quote
DumpQuotedOnce(text) ==
    /\ Contains(text, JavaDump)
    /\ \A k \in 1..Len(text) :
           StartsAt(text, k, JavaDump) =>
               /\ Ch(text, k - 1) = QUOTE /\ Ch(text, k - 2) # QUOTE
               /\ Ch(text, k + Len(JavaDump)) = QUOTE
               /\ Ch(text, k + Len(JavaDump) + 1) # QUOTE

\* C14: when the value of REQUEST_MESSAGE is the bare Java dump, the text
\* fix_json returns holds the dump as a string quoted exactly once, and parses
\* with REQUEST_MESSAGE mapped to that string, in a flat object and in an
\* object that holds nested objects.
C14_DumpQuotedOnce ==
    (pc = "fixed" /\ HasBareDump(fix_in)) =>
        /\ DumpQuotedOnce(fix_out)
        /\ Loads(fix_out).ok
        /\ HasKey(Loads(fix_out).v, "REQUEST_MESSAGE")
        /\ Get(Loads(fix_out).v, "REQUEST_MESSAGE") = JStr(JavaDump)

\* fix_json has returned for a dump in an object that holds nested objects
C14_Witness ==
    /\ pc = "fixed"
    /\ HasBareDump(fix_in)
    /\ HasNestedObject(fix_in)
    /\ DumpQuotedOnce(fix_out)

\* fix_json has returned for a dump in a flat object
C14_WitnessFlat ==
    /\ pc = "fixed"
    /\ HasBareDump(fix_in)
    /\ ~HasNestedObject(fix_in)
    /\ DumpQuotedOnce(fix_out)

\* C15: process_content never raises: no failure of the parse of the raw text
\* or of the repaired text leaves the function as an exception.
C15_NeverRaises == pc # "raised"

\* whether the sequence p is a prefix of the sequence q
IsPrefix(p, q) == Len(p) <= Len(q) /\ p = SubSeq(q, 1, Len(p))

\* C16: for each segment the steps are tried in the order strict parse,
\* fix_json, fallback: fix_json only if the parse of the raw text failed, the
\* fallback only if the parse of the repaired text failed too; the value of a
\* segment that is strict JSON is the parse of its raw text.
C16_StepOrder ==
    pc \in {"process", "done", "raised"} =>
        \A i \in 1..Len(tried) :
            /\ tried[i] # <<>>
            /\ IsPrefix(tried[i], <<"strict", "fix_json", "fallback">>)
            /\ "fix_json" \in Members(tried[i]) => ~Loads(json_objects[i][2]).ok
            /\ "fallback" \in Members(tried[i]) =>
                   ~Loads(fix_json(json_objects[i][2])).ok
            /\ Loads(json_objects[i][2]).ok =>
                   /\ tried[i] = <<"strict">>
                   /\ results[i] = Loads(json_objects[i][2]).v

\* a fallback segment, a repaired segment and a strict segment, in this order
C16_Witness ==
    /\ pc = "done"
    /\ chunks = <<Broken, Repairable, StrictLine>>
    /\ tried = <<<<"strict", "fix_json", "fallback">>, <<"strict", "fix_json">>, <<"strict">>>>
    /\ results[3] = JObj(<<KV("a", JInt(1))>>)

\* the positions of a line that hold a brace or come right after a backslash
BracePositions(line) ==
    {i \in 1..Len(line) : Ch(line, i) \in {"{", "}"} \/ Ch(line, i - 1) = BACKSLASH}

\* the scanner's state before the character i of the next line is read
BeforeChar(i) == ScanRange(ScanState, lines[line_num + 1], 1, i - 1, line_num + 1)

\* the scanner's state after the character i of the next line is read
AfterChar(i) ==
    ScanChar(BeforeChar(i), Ch(lines[line_num + 1], i), line_num + 1)

\* C17: a brace read in string mode leaves brace_depth as it is; the
\* character right after a backslash changes neither brace_depth nor
\* in_string; every other { read outside a string adds exactly 1 to
\* brace_depth and every other } read outside a string subtracts exactly 1,
\* whatever the value of brace_depth.
C17_BraceCounting ==
    (pc = "scan" /\ line_num < Len(lines)) =>
        \A i \in BracePositions(lines[line_num + 1]) :
            LET ch == Ch(lines[line_num + 1], i)
                escaped == Ch(lines[line_num + 1], i - 1) = BACKSLASH
            IN  /\ (ch \in {"{", "}"} /\ BeforeChar(i).in_string) =>
                       AfterChar(i).brace_depth = BeforeChar(i).brace_depth
                /\ escaped =>
                       /\ AfterChar(i).brace_depth = BeforeChar(i).brace_depth
                       /\ AfterChar(i).in_string = BeforeChar(i).in_string
                /\ (ch = "{" /\ ~BeforeChar(i).in_string /\ ~escaped) =>
                       AfterChar(i).brace_depth = BeforeChar(i).brace_depth + 1
                /\ (ch = "}" /\ ~BeforeChar(i).in_string /\ ~escaped) =>
                       AfterChar(i).brace_depth = BeforeChar(i).brace_depth - 1

\* C18: a negative brace_depth never balances: when brace_depth is negative
\* at the end of a line and lines are accumulated for a segment, the next
\* line of the input does not emit these accumulated lines as a segment
\* (a segment it emits has started on that line).
C18_NegativeNeverEmitted ==
    [][(pc = "scan" /\ brace_depth < 0 /\ current_obj # <<>>
            /\ Len(objects') > Len(objects)) =>
           /\ objects'[Len(objects')][1] = line_num + 1
           /\ objects'[Len(objects')][2] \notin
                  {Join(current_obj, NL),
                   Join(Append(current_obj, lines[line_num + 1]), NL)}]_vars

\* C19: the start line of every emitted segment is a line number of the
\* input, counted from 1, and the line of that number is the first line of
\* the segment's text.
C19_StartLineOfSegment ==
    pc = "scan" =>
        \A i \in 1..Len(objects) :
            /\ objects[i][1] >= 1
            /\ objects[i][1] <= line_num
            /\ lines[objects[i][1]] = Split(objects[i][2], NL)[1]

\* whether brace_depth goes from 1 to 0 at some character of the next line
ClosesOnNextLine ==
    \E i \in BracePositions(lines[line_num + 1]) :
        BeforeChar(i).brace_depth = 1 /\ AfterChar(i).brace_depth = 0

\* brace_depth after a scan of the text alone
BraceDepthOf(text) == ScanLines(ScanInit, Split(text, NL), 1).brace_depth

\* C20: when brace_depth returns from a positive value to 0 on a line and is
\* 0 at the end of that line, the line emits a segment whose last line is
\* that closing line, whatever follows its final }, and whose text has as
\* many { as } outside strings.
C20_ClosingLineEmitted ==
    [][(pc = "scan" /\ line_num < Len(lines) /\ line_num' = line_num + 1
            /\ ClosesOnNextLine /\ brace_depth' = 0) =>
           /\ Len(objects') = Len(objects) + 1
           /\ LET text == objects'[Len(objects')][2]
              IN  /\ Split(text, NL)[Len(Split(text, NL))] = lines[line_num + 1]
                  /\ BraceDepthOf(text) = 0]_vars

\* the positions of text at which the key k stands in double quotes
QuotedAt(text, k) ==
    {p \in 1..Len(text) : StartsAt(text, p, QUOTE \o k \o QUOTE)}

\* the ends of the strict-JSON objects and arrays that start at position o
ValueSpanEnds(text, o) ==
    {e \in o..Len(text) : /\ Ch(text, e) \in {"}", "]"}
                          /\ Loads(SubSeq(text, o, e)).ok}

\* whether the key k occurs in text, and only inside the span o..e
OnlyInside(text, k, o, e) ==
    /\ QuotedAt(text, k) # {}
    /\ \A p \in QuotedAt(text, k) : o <= p /\ p + Len(k) + 1 <= e

\* C21: the special key and its value span are cut out of the text before
\* the generic scan: no key that occurs only inside the strict-JSON value
\* that follows the special key is a top-level key of the fallback object,
\* and the value under the special key is the one stored before the scan.
C21_SpanExcised ==
    (pc = "fellback" /\ BothParsesFail(fb_in[2])) =>
        /\ \A o \in RspValueStarts(fb_in[2]) :
               \A e \in ValueSpanEnds(fb_in[2], o) :
                   \A k \in Keys(fb_out) : ~OnlyInside(fb_in[2], k, o, e)
        /\ RspExtract(Join(SplitLines(fb_in[2]), " ")).has =>
               /\ HasKey(fb_out, RSP_KEY)
               /\ Get(fb_out, RSP_KEY) =
                      RspExtract(Join(SplitLines(fb_in[2]), " ")).val

\* the keys of text that stand after position o and are followed by a colon
\* and an opening brace
ObjectKeysAfter(text, o) ==
    {SubSeq(text, p + 1, q - 1) :
        <<p, q>> \in {pq \in (o..Len(text)) \X (o..Len(text)) :
                        /\ pq[1] + 1 < pq[2]
                        /\ Ch(text, pq[1]) = QUOTE
                        /\ Ch(text, pq[2]) = QUOTE
                        /\ \A m \in (pq[1] + 1)..(pq[2] - 1) : Ch(text, m) # QUOTE
                        /\ Ch(text, SkipIn(text, pq[2] + 1, JsonWs)) = ":"
                        /\ Ch(text, SkipIn(text, SkipIn(text, pq[2] + 1, JsonWs) + 1,
                                           JsonWs)) = "{"}}

\* C22: when the special key is followed by a quoted string, the value
\* stored under it is taken from the text at that string, not from an object
\* held by a later key, and every later key that holds an object is still a
\* key of the fallback object.
C22_ValueFollowsColon ==
    (pc = "fellback" /\ BothParsesFail(fb_in[2])) =>
        \A o \in RspValueStarts(fb_in[2]) :
            Ch(fb_in[2], o) = QUOTE =>
                /\ HasKey(fb_out, RSP_KEY)
                /\ Get(fb_out, RSP_KEY).t = "str"
                /\ Ch(Get(fb_out, RSP_KEY).s, 1) = QUOTE
                /\ \A k \in ObjectKeysAfter(fb_in[2], o) :
                       k # RSP_KEY => HasKey(fb_out, k)

(***************************************************************************)
(* main (src/handler.py), decompress_audit_gz_in_inputs                    *)
(* (src/files/gzip_processing.py) and persist_all_json_to_db               *)
(* (src/service/persist_json_events.py) on the storage directories.  Each  *)
(* pass of a loop over files is a step.  The directories have the names    *)
(* main gives them when no .env file says otherwise.  The log files of the *)
(* model are parsed by process_content without an exception.               *)
(***************************************************************************)
\* the number of calls of main, decompress_audit_gz_in_inputs and
\* persist_all_json_to_db in a behaviour
MaxRuns == 2

\* the file names of the model, in the order sorted() gives them
NameOrder ==
    <<"auditlog-2025-11-10_07.0.json", "auditlog-2025-11-10_07.0.log",
      "auditlog-2025-11-10_07.0.log.gz", "brs1.json", "brs1.log", "brs1.log.gz">>

\* datetime.now().strftime("%Y%m%d")
Today == "20261102"

\* _AUDITLOG_DATE_RE.search(name) and the folder made of its group: with the
\* optional greedy prefix (?:.*-)? the last match that follows a "-" wins,
\* otherwise the leftmost match
extract_date_folder(name, prefixed) ==
    LET IsDigits(i, j) == \A m \in i..j : Ch(name, m) \in Digits
        P == {q \in 1..Len(name) :
                 /\ StartsAt(name, q, "auditlog-")
                 /\ IsDigits(q + 9, q + 12) /\ Ch(name, q + 13) = "-"
                 /\ IsDigits(q + 14, q + 15) /\ Ch(name, q + 16) = "-"
                 /\ IsDigits(q + 17, q + 18) /\ Ch(name, q + 19) = "_"}
        D == {q \in P : prefixed /\ Ch(name, q - 1) = "-"}
        m == IF D # {} THEN CHOOSE q \in D : \A r \in D : r <= q
             ELSE CHOOSE q \in P : \A r \in P : q <= r
    IN  IF P = {} THEN Today
        ELSE SubSeq(name, m + 9, m + 12) \o SubSeq(name, m + 14, m + 15)
                 \o SubSeq(name, m + 17, m + 18)

\* Path(name).stem: the name without its last suffix
Stem(name) ==
    LET dots == {i \in 2..Len(name) : Ch(name, i) = "."}
    IN  IF dots = {} THEN name
        ELSE Upto(name, CHOOSE i \in dots : \A j \in dots : j <= i)

\* Path.exists / Path.is_file
Exists(files, dir, name) == \E f \in files : f.dir = dir /\ f.name = name

\* the file of that path
FileAt(files, dir, name) == CHOOSE f \in files : f.dir = dir /\ f.name = name

\* sorted(dir.glob("*" + suffix)), as names
Glob(files, dir, suffix) ==
    LET Matches(n) == EndsWith(n, suffix) /\ Exists(files, dir, n)
    IN  SelectSeq(NameOrder, Matches)

\* write_text and open(..., "wb"): the file f is created or overwritten
WriteFile(files, f) ==
    {g \in files : ~(g.dir = f.dir /\ g.name = f.name)} \cup {f}

\* faulty variant of Replace: the file is copied, not moved
ReplaceCopies(files, f, dir) == WriteFile(files, [f EXCEPT !.dir = dir])

\* Path.replace: the file f is moved into dir, over a file of its name
Replace(files, f, dir) ==
    WriteFile({g \in files : g # f}, [f EXCEPT !.dir = dir])

\* process_content(content): the loop of lines 225-249 over the segments
RECURSIVE ProcessSegments(_, _, _)
ProcessSegments(objs, i, acc) ==
    IF i > Len(objs) \/ acc.raised # "" THEN acc
    ELSE ProcessSegments(objs, i + 1,
             [results |-> acc.results \o ProcessOne(objs[i][1], objs[i][2]).values,
              errors |-> acc.errors \o ProcessOne(objs[i][1], objs[i][2]).diags,
              raised |-> ProcessOne(objs[i][1], objs[i][2]).raised])

process_content(raw) ==
    ProcessSegments(extract_json_objects(raw), 1,
                    [results |-> <<>>, errors |-> <<>>, raised |-> ""])

\* lines 239 and 278 of main: where a processed log file goes
TargetDir(parsed_events, date_folder) ==
    IF parsed_events = 0 THEN "errors" ELSE "archives/inputs/" \o date_folder

\* faulty variant of events_model_to_database: commit after every flush
events_model_to_database_each(events, db, fail_at) ==
    IF fail_at = 0 THEN [committed |-> db \o events, raised |-> FALSE]
    ELSE [committed |-> db \o SubSeq(events, 1, fail_at - 1), raised |-> TRUE]

\* events_model_to_database(events, session) on the committed rows db: the
\* flush of the event fail_at raises (the commit if fail_at is past the
\* last event), nothing raises if fail_at is 0; the session is closed by the
\* caller, which drops what was flushed and not committed
events_model_to_database(events, db, fail_at) ==
    IF fail_at = 0 THEN [committed |-> db \o events, raised |-> FALSE]
    ELSE [committed |-> db, raised |-> TRUE]

\* _iter_events_from_file: the rows of the objects of the file f
EventsOf(f) ==
    LET IsDict(v) == v.t = "obj"
        dicts == SelectSeq(f.events, IsDict)
    IN  [i \in 1..Len(dicts) |-> <<f.dir \o "/" \o f.name, dicts[i]>>]

\* persist_json_file_to_db(json_path, session)
persist_json_file_to_db(f, db, fail_at) ==
    IF ~f.is_list THEN [committed |-> db, raised |-> TRUE]
    ELSE IF EventsOf(f) = <<>> THEN [committed |-> db, raised |-> FALSE]
    ELSE events_model_to_database(EventsOf(f), db, fail_at)

\* two objects, the second one repaired by fix_json
TwoEvents == StrictLine \o NL \o Repairable

\* the *.log.gz files that may lie in inputs at the start
GzCandidates ==
    {[dir |-> "inputs", name |-> "auditlog-2025-11-10_07.0.log.gz", kind |-> "ok",
      raw |-> TwoEvents],
     [dir |-> "inputs", name |-> "auditlog-2025-11-10_07.0.log.gz", kind |-> "corrupt",
      raw |-> ""],
     [dir |-> "inputs", name |-> "auditlog-2025-11-10_07.0.log.gz", kind |-> "corrupt",
      raw |-> StrictLine],
     [dir |-> "inputs", name |-> "brs1.log.gz", kind |-> "unreadable", raw |-> ""],
     [dir |-> "inputs", name |-> "brs1.log.gz", kind |-> "ok", raw |-> "}"]}

\* the *.log files that may lie in the storage at the start
LogCandidates ==
    {[dir |-> "errors", name |-> "brs1.log", raw |-> "}"],
     [dir |-> "inputs/processing_data", name |-> "auditlog-2025-11-10_07.0.log",
      raw |-> StrictLine]}

\* the *.json files that may lie in json_data at the start
JsonCandidates ==
    {[dir |-> "json_data", name |-> "brs1.json", is_list |-> FALSE, events |-> <<>>],
     [dir |-> "json_data", name |-> "brs1.json", is_list |-> TRUE,
      events |-> <<JInt(1), JObj(<<KV("a", JInt(1))>>)>>]}

\* the paths main may be given as input_log
ExplicitPaths ==
    {<<"errors", "brs1.log">>,
     <<"inputs/processing_data", "auditlog-2025-11-10_07.0.log">>,
     <<"inputs/processing_data", "brs1.log">>}

\* the sets of files in which no two files have the same name
OnePerName(S) == {T \in SUBSET S : \A f, g \in T : f.name = g.name => f = g}

StorageInit ==
    /\ pc = "idle"
    /\ chunks = <<>> /\ content = "" /\ lines = <<>> /\ line_num = 0
    /\ objects = <<>> /\ current_obj = <<>> /\ current_start_line = 0
    /\ brace_depth = 0 /\ in_string = FALSE /\ escape_next = FALSE
    /\ json_objects = <<>> /\ seg = 0 /\ results = <<>> /\ errors = <<>>
    /\ tried = <<>>
    /\ fix_in = "" /\ fix_out = "" /\ fb_in = <<>> /\ fb_out = JNull
    /\ gz_files \in OnePerName(GzCandidates)
    /\ log_files \in OnePerName(LogCandidates)
    /\ json_files \in OnePerName(JsonCandidates)
    /\ stats_files = {}
    /\ committed = <<>>
    /\ caller = ""
    /\ backups_root = FALSE
    /\ input_log = <<>>
    /\ todo = <<>>
    /\ created_logs = <<>>
    /\ error_count = 0
    /\ failed = {}
    /\ runs = 0

parser == <<chunks, content, lines, line_num, scanner, process, calls>>

\* decompress_audit_gz_in_inputs(inputs_dir, backups_root) is entered, from
\* main (enable_decompression) or directly: lines 47-55
EnterDecompress(from, root) ==
    /\ caller' = from
    /\ backups_root' = root
    /\ todo' = Glob(gz_files, "inputs", ".log.gz")
    /\ created_logs' = <<>>
    /\ error_count' = 0
    /\ pc' = "decompress"

\* main(argv) is called: lines 153-211
CallMain ==
    /\ pc \in {"idle", "raised"}
    /\ runs < MaxRuns
    /\ runs' = runs + 1
    /\ \E arg \in {<<>>} \cup ExplicitPaths, enable_decompression \in BOOLEAN :
         /\ input_log' = arg
         /\ IF enable_decompression
            THEN EnterDecompress(IF arg = <<>> THEN "batch" ELSE "explicit", TRUE)
            ELSE /\ caller' = IF arg = <<>> THEN "batch" ELSE "explicit"
                 /\ pc' = "select"
                 /\ UNCHANGED <<backups_root, todo, created_logs, error_count>>
    /\ UNCHANGED <<parser, gz_files, log_files, json_files, stats_files, committed,
                   failed>>

\* decompress_audit_gz_in_inputs is called directly
CallDecompress ==
    /\ pc \in {"idle", "raised"}
    /\ runs < MaxRuns
    /\ runs' = runs + 1
    /\ \E root \in BOOLEAN : EnterDecompress("direct", root)
    /\ UNCHANGED <<parser, gz_files, log_files, json_files, stats_files, committed,
                   input_log, failed>>

\* lines 81-89: the .gz file g goes to the dated backup directory
Backup(g) ==
    LET backup_dir == "backups/" \o extract_date_folder(g.name, TRUE)
    IN  IF backups_root /\ ~Exists(gz_files, backup_dir, g.name)
        THEN gz_files' = Replace(gz_files, g, backup_dir)
        ELSE UNCHANGED gz_files

\* one pass of the loop over the .gz files (lines 55-89)
DecompressFile ==
    /\ pc = "decompress"
    /\ todo # <<>>
    /\ todo' = Tail(todo)
    /\ LET g == FileAt(gz_files, "inputs", Head(todo))
           log_name == SubSeq(g.name, 1, Len(g.name) - 3)
           target == [dir |-> "inputs/processing_data", name |-> log_name, raw |-> g.raw]
       IN  IF Exists(log_files, "inputs/processing_data", log_name)
           THEN /\ Backup(g)
                /\ UNCHANGED <<log_files, created_logs, error_count, failed>>
           ELSE IF g.kind = "ok"
           THEN /\ log_files' = WriteFile(log_files, target)
                /\ created_logs' = Append(created_logs, log_name)
                /\ Backup(g)
                /\ UNCHANGED <<error_count, failed>>
           ELSE /\ log_files' = IF g.kind = "corrupt"
                                THEN WriteFile(log_files, target) ELSE log_files
                /\ error_count' = error_count + 1
                /\ failed' = failed \cup {g.name}
                /\ UNCHANGED <<gz_files, created_logs>>
    /\ UNCHANGED <<pc, parser, json_files, stats_files, committed, caller, backups_root,
                   input_log, runs>>

\* line 91: decompress_audit_gz_in_inputs returns
DecompressReturn ==
    /\ pc = "decompress"
    /\ todo = <<>>
    /\ pc' = IF caller = "direct" THEN "idle" ELSE "select"
    /\ UNCHANGED <<parser, storage>>

\* lines 213-261 of main: the log files to process are the one given, if it
\* is a file, or those of processing_data
SelectLogs ==
    /\ pc = "select"
    /\ IF caller = "explicit"
       THEN IF Exists(log_files, input_log[1], input_log[2])
            THEN pc' = "logs" /\ todo' = <<input_log[2]>> /\ UNCHANGED input_log
            ELSE pc' = "idle" /\ UNCHANGED <<todo, input_log>>
       ELSE /\ pc' = "logs"
            /\ todo' = Glob(log_files, "inputs/processing_data", ".log")
            /\ input_log' = <<>>
    /\ UNCHANGED <<parser, gz_files, log_files, json_files, stats_files, committed, caller,
                   backups_root, created_logs, error_count, failed, runs>>

\* the directory of the log file the loop is at
LogDir == IF caller = "explicit" THEN input_log[1] ELSE "inputs/processing_data"

\* lines 224-236 and 264-276: ingest_log_file and write_outputs
WriteOutputs ==
    /\ pc = "logs"
    /\ todo # <<>>
    /\ LET f == FileAt(log_files, LogDir, Head(todo))
           events == process_content(f.raw).results
       IN  /\ input_log' = <<f.dir, f.name>>
           /\ json_files' = WriteFile(json_files,
                  [dir |-> "json_data", name |-> Stem(f.name) \o ".json",
                   is_list |-> TRUE, events |-> events])
           /\ stats_files' = WriteFile(stats_files,
                  [dir |-> "logs/" \o extract_date_folder(f.name, TRUE),
                   name |-> Stem(f.name) \o "_stats.log",
                   parsed_events |-> Len(events)])
    /\ pc' = "move"
    /\ UNCHANGED <<parser, gz_files, log_files, committed, caller, backups_root, todo,
                   created_logs, error_count, failed, runs>>

\* lines 238-241 and 278-280: the log file goes to errors or to the archive
MoveLog ==
    /\ pc = "move"
    /\ LET f == FileAt(log_files, input_log[1], input_log[2])
           stats == FileAt(stats_files, "logs/" \o extract_date_folder(f.name, TRUE),
                           Stem(f.name) \o "_stats.log")
       IN  log_files' = Replace(log_files, f,
               TargetDir(stats.parsed_events, extract_date_folder(f.name, TRUE)))
    /\ todo' = Tail(todo)
    /\ pc' = "logs"
    /\ UNCHANGED <<parser, gz_files, json_files, stats_files, committed, caller,
                   backups_root, input_log, created_logs, error_count, failed, runs>>

\* persist_all_json_to_db is entered: lines 103-125
EnterPersist ==
    /\ todo' = Glob(json_files, "json_data", ".json")
    /\ pc' = "persist"

\* lines 252 and 291-304 of main: after the log files, the JSON files are
\* persisted, unless there was no log file and there is no JSON file
LogsDone ==
    /\ pc = "logs"
    /\ todo = <<>>
    /\ IF caller = "batch" /\ input_log = <<>>
             /\ Glob(json_files, "json_data", ".json") = <<>>
       THEN pc' = "idle" /\ UNCHANGED todo
       ELSE EnterPersist
    /\ UNCHANGED <<parser, gz_files, log_files, json_files, stats_files, committed, caller,
                   backups_root, input_log, created_logs, error_count, failed, runs>>

\* persist_all_json_to_db is called directly
CallPersist ==
    /\ pc \in {"idle", "raised"}
    /\ runs < MaxRuns
    /\ runs' = runs + 1
    /\ caller' = "direct"
    /\ EnterPersist
    /\ UNCHANGED <<parser, gz_files, log_files, json_files, stats_files, committed,
                   backups_root, input_log, created_logs, error_count, failed>>

\* the number of events of the file the loop of persist_all_json_to_db is at
PersistEvents == Len(EventsOf(FileAt(json_files, "json_data", Head(todo))))

\* one pass of the loop over the JSON files (lines 125-135): the events of
\* the file are committed and the file goes to the dated archive directory
PersistFile ==
    /\ pc = "persist"
    /\ todo # <<>>
    /\ LET f == FileAt(json_files, "json_data", Head(todo))
           r == persist_json_file_to_db(f, committed, 0)
       IN  /\ ~r.raised
           /\ committed' = r.committed
           /\ json_files' = Replace(json_files, f,
                  "archives/json_data/" \o extract_date_folder(f.name, FALSE))
    /\ todo' = Tail(todo)
    /\ UNCHANGED <<pc, parser, gz_files, log_files, stats_files, caller, backups_root,
                   input_log, created_logs, error_count, failed, runs>>

\* a pass of that loop raises: the exception leaves persist_all_json_to_db
\* through the finally clause of lines 137-138
PersistRaise ==
    /\ pc = "persist"
    /\ todo # <<>>
    /\ \E fail_at \in 0..(PersistEvents + 1) :
         LET r == persist_json_file_to_db(FileAt(json_files, "json_data", Head(todo)),
                                          committed, fail_at)
         IN  /\ r.raised
             /\ committed' = r.committed
    /\ pc' = "raised"
    /\ UNCHANGED <<parser, gz_files, log_files, json_files, stats_files, caller,
                   backups_root, input_log, todo, created_logs, error_count, failed, runs>>

\* line 136-138: persist_all_json_to_db returns, and main with it
PersistReturn ==
    /\ pc = "persist"
    /\ todo = <<>>
    /\ pc' = "idle"
    /\ UNCHANGED <<parser, storage>>

StorageNext ==
    \/ CallMain
    \/ CallDecompress
    \/ DecompressFile
    \/ DecompressReturn
    \/ SelectLogs
    \/ WriteOutputs
    \/ MoveLog
    \/ LogsDone
    \/ CallPersist
    \/ PersistFile
    \/ PersistRaise
    \/ PersistReturn

StorageSpec == StorageInit /\ [][StorageNext]_vars

\* C23: a .log.gz file whose decompression failed is never moved to the
\* backups directory: after any number of calls it is still in inputs.
C23_FailedGzStays ==
    \A n \in failed :
        /\ Exists(gz_files, "inputs", n)
        /\ \A g \in gz_files : g.name = n => g.dir = "inputs"

\* the log file main is about to move, and the directory the claim names for it
MovedLog == FileAt(log_files, input_log[1], input_log[2])

ClaimedDir ==
    IF process_content(MovedLog.raw).results = <<>> THEN "errors"
    ELSE "archives/inputs/" \o extract_date_folder(MovedLog.name, TRUE)

\* what a step that moves the log file does: the JSON output and the
\* statistics of the file were written before the step, after it the file is
\* in the directory the claim names, and it has left its original path
\* (if in_place, a file that already lies in that directory may stay)
MoveOutcome(in_place) ==
    /\ [dir |-> "json_data", name |-> Stem(MovedLog.name) \o ".json", is_list |-> TRUE,
        events |-> process_content(MovedLog.raw).results] \in json_files
    /\ \E st \in stats_files :
           /\ st.name = Stem(MovedLog.name) \o "_stats.log"
           /\ st.parsed_events = Len(process_content(MovedLog.raw).results)
    /\ [MovedLog EXCEPT !.dir = ClaimedDir] \in log_files'
    /\ (in_place /\ MovedLog.dir = ClaimedDir) \/ MovedLog \notin log_files'
    /\ (in_place /\ MovedLog.dir = ClaimedDir)
           \/ ~Exists(log_files', MovedLog.dir, MovedLog.name)

\* C24 as stated: after main has processed a log file, the file is no longer
\* at its original path; it is in errors when zero events were parsed from
\* it, otherwise in archives/inputs/<date folder>; its JSON output and its
\* statistics file were written before the move.
C24_LogMovedAway ==
    [][(pc = "move" /\ pc' = "logs") => MoveOutcome(FALSE)]_vars

\* C24, amended: after main has processed a log file, the file is in errors
\* when zero events were parsed from it, otherwise in
\* archives/inputs/<date folder>, and it is no longer at its original path
\* unless that path already is in that directory; its JSON output and its
\* statistics file were written before the move.
C24_LogInTargetDir ==
    [][(pc = "move" /\ pc' = "logs") => MoveOutcome(TRUE)]_vars

\* main, in batch mode, has processed the decompressed log file of two
\* events: the file is in the dated archive and no longer in processing_data
C24_Witness ==
    /\ pc = "logs"
    /\ caller = "batch"
    /\ todo = <<>>
    /\ input_log = <<"inputs/processing_data", "auditlog-2025-11-10_07.0.log">>
    /\ [dir |-> "archives/inputs/20251110", name |-> "auditlog-2025-11-10_07.0.log",
        raw |-> TwoEvents] \in log_files
    /\ ~Exists(log_files, "inputs/processing_data", "auditlog-2025-11-10_07.0.log")
    /\ Exists(json_files, "json_data", "auditlog-2025-11-10_07.0.json")

\* the JSON files of json_data that a step moves to the archive
Archived ==
    {f \in json_files :
        /\ f.dir = "json_data"
        /\ ~Exists(json_files', "json_data", f.name)
        /\ \E g \in json_files' : g.name = f.name /\ g.events = f.events
                                   /\ StartsWith(g.dir, "archives/json_data/")}

\* C25: a step of persist_all_json_to_db that moves a JSON file to the dated
\* archive directory has committed all the events of that file; a step that
\* raises leaves the file in json_data and commits nothing, and after it no
\* file is persisted or archived in that run.
C25_ArchiveAfterCommit ==
    [][/\ pc = "persist" =>
              \A f \in Archived :
                  /\ Len(committed') = Len(committed) + Len(EventsOf(f))
                  /\ SubSeq(committed', Len(committed) + 1, Len(committed')) = EventsOf(f)
       /\ (pc = "persist" /\ pc' = "raised") =>
              /\ Exists(json_files', "json_data", Head(todo))
              /\ json_files' = json_files
              /\ committed' = committed
       /\ pc = "raised" => (json_files' = json_files /\ committed' = committed)]_vars

\* the first JSON file was committed and archived, the second one raised: it
\* is still in json_data and the rows are those of the first file
C25_Witness ==
    /\ pc = "raised"
    /\ todo = <<"brs1.json">>
    /\ Exists(json_files, "json_data", "brs1.json")
    /\ Exists(json_files, "archives/json_data/20251110", "auditlog-2025-11-10_07.0.json")
    /\ Len(committed) = 2
    /\ committed[1][1] = "json_data/auditlog-2025-11-10_07.0.json"

=============================================================================
